---------------------------- MODULE Spec2Model ----------------------------
(***************************************************************************)
(* VRC Social: the browser-side reconciler (FriendsProvider), the          *)
(* server-sent-events relay (GET /api/friends/stream) and the snapshot     *)
(* endpoint (GET /api/friends/active), as one state machine.               *)
(*                                                                         *)
(* JavaScript values: undefined and null are both the string Undefined;    *)
(* a Map is a function whose DOMAIN is its key set, with a separate        *)
(* sequence where the insertion order matters.                             *)
(***************************************************************************)
EXTENDS Integers, Sequences, FiniteSets, TLC

Undefined == "undefined"

(***************************************************************************)
(* Bounds of the model.                                                    *)
(***************************************************************************)
MaxQueue == 1      \* messages enqueued on the browser channel and not yet delivered
MaxConnects == 4   \* EventSource objects the provider constructs
MaxFetches == 2    \* calls of fetchFriends: the one of Initialize, then the refreshes
MaxBacklog == 2    \* messages on the browser channel while arbitrary frames arrive
MaxTicks == 3      \* steps of the clock, of ClockStep each
MaxWrites == 600   \* writes of the activity log in the run that fills it
MaxLogged == 1     \* entries in the activity log while the platform goes on sending frames

(***************************************************************************)
(* The users, and the upstream platform's favourites of the logged-in user *)
(***************************************************************************)
Users == {"usr_A", "usr_B"}
Favorites == {"usr_A"}
FavoriteTag(u) == IF u = "usr_A" THEN "group_0" ELSE Undefined

(***************************************************************************)
(* Location strings.  A string is handled through its tokens: the pieces   *)
(* the code's split(), includes(), startsWith() and match() tell apart.    *)
(***************************************************************************)
LocFriends == "wrld_1:inst1~friends(usr_A)"
LocGroup == "wrld_2:inst2~group(grp_9)~groupAccessType(public)"
LocInvite == "wrld_1:inst3~private(usr_B)"
WorldLocations == {LocFriends, LocGroup}
Locations == WorldLocations \cup {"private", "traveling", "offline"}

Tokens(loc) ==
    CASE loc = LocFriends -> <<"wrld_1", ":", "inst1", "~friends(", "usr_A", ")">>
      [] loc = LocGroup -> <<"wrld_2", ":", "inst2", "~group(", "grp_9", ")",
                             "~groupAccessType(", "public", ")">>
      [] loc = LocInvite -> <<"wrld_1", ":", "inst3", "~private(", "usr_B", ")">>
      [] loc = Undefined -> <<>>
      [] OTHER -> <<loc>>

WorldIds == {"wrld_1", "wrld_2"}
UserIdTokens == {"usr_A", "usr_B"}
GroupIdTokens == {"grp_9"}

\* String.prototype.startsWith('wrld_')
StartsWithWrld(loc) == Tokens(loc) # <<>> /\ Head(Tokens(loc)) \in WorldIds

\* String.prototype.includes('private')
IncludesPrivate(loc) ==
    \E i \in 1..Len(Tokens(loc)) : Tokens(loc)[i] \in {"private", "~private("}

\* the index of the first ":" token, 0 when there is none
RECURSIVE FirstColon(_, _)
FirstColon(toks, i) ==
    IF i > Len(toks) THEN 0
    ELSE IF toks[i] = ":" THEN i ELSE FirstColon(toks, i + 1)

\* location.split(':'), as a sequence of token sequences
RECURSIVE SplitColon(_)
SplitColon(toks) ==
    LET c == FirstColon(toks, 1) IN
    IF c = 0 THEN <<toks>>
    ELSE <<SubSeq(toks, 1, c - 1)>> \o SplitColon(SubSeq(toks, c + 1, Len(toks)))

\* location.split(':')[0], the venue id
WorldIdOf(loc) == Head(SplitColon(Tokens(loc)))[1]

HasToken(raw, t) == \E i \in 1..Len(raw) : raw[i] = t

\* ([^)]+)\) matched at token i: the text of the tokens from i up to the next ")",
\* undefined when no ")" follows or when the ")" comes at once
RECURSIVE Capture(_, _)
Capture(raw, i) ==
    IF i > Len(raw) \/ raw[i] = ")" THEN Undefined
    ELSE IF i + 1 <= Len(raw) /\ raw[i + 1] = ")" THEN raw[i]
    ELSE LET rest == Capture(raw, i + 1)
         IN IF rest = Undefined THEN Undefined ELSE raw[i] \o rest

\* raw.match(/\((usr_[^)]+)\)/): the first parenthesised text that starts with usr_
UsrMatch(raw) ==
    LET hits == {i \in 1..Len(raw) - 2 :
                    /\ raw[i] \in {"~friends(", "~hidden(", "~private(", "~group(",
                                   "~region(", "~groupAccessType("}
                    /\ raw[i + 1] \in UserIdTokens
                    /\ Capture(raw, i + 1) # Undefined}
    IN IF hits = {} THEN Undefined
       ELSE Capture(raw, (CHOOSE i \in hits : \A j \in hits : i <= j) + 1)

\* raw.match(/~group\((grp_[^)]+)\)/)
GrpMatch(raw) ==
    LET hits == {i \in 1..Len(raw) - 2 :
                    /\ raw[i] = "~group("
                    /\ raw[i + 1] \in GroupIdTokens
                    /\ Capture(raw, i + 1) # Undefined}
    IN IF hits = {} THEN Undefined
       ELSE Capture(raw, (CHOOSE i \in hits : \A j \in hits : i <= j) + 1)

\* raw.includes('groupAccessType(<v>)')
HasGroupAccess(raw, v) ==
    \E i \in 1..Len(raw) - 2 :
        raw[i] = "~groupAccessType(" /\ raw[i + 1] = v /\ raw[i + 2] = ")"

\* a faulty tier chain: the friends marker is looked for before the private marker
TierOfFriendsFirst(raw) ==
    IF HasToken(raw, "~group(")
    THEN IF HasGroupAccess(raw, "public") THEN "Group Public"
         ELSE IF HasGroupAccess(raw, "plus") THEN "Group+"
         ELSE "Group"
    ELSE IF HasToken(raw, "~friends(") THEN "Friends"
    ELSE IF HasToken(raw, "~private(")
    THEN IF HasToken(raw, "~canRequestInvite") THEN "Invite+" ELSE "Invite"
    ELSE IF HasToken(raw, "~hidden(") THEN "Friends+"
    ELSE "Public"

\* the tier chain shared by parseInstanceInfo and parseLocation
TierOf(raw) ==
    IF HasToken(raw, "~group(")
    THEN IF HasGroupAccess(raw, "public") THEN "Group Public"
         ELSE IF HasGroupAccess(raw, "plus") THEN "Group+"
         ELSE "Group"
    ELSE IF HasToken(raw, "~private(")
    THEN IF HasToken(raw, "~canRequestInvite") THEN "Invite+" ELSE "Invite"
    ELSE IF HasToken(raw, "~friends(") THEN "Friends"
    ELSE IF HasToken(raw, "~hidden(") THEN "Friends+"
    ELSE "Public"

\* raw.match(/~region\(([^)]+)\)/) mapped through the region table
RegionOf(raw) ==
    LET hits == {i \in 1..Len(raw) - 2 :
                    raw[i] = "~region(" /\ Capture(raw, i + 1) # Undefined}
        r == IF hits = {} THEN Undefined
             ELSE Capture(raw, (CHOOSE i \in hits : \A j \in hits : i <= j) + 1)
    IN CASE r = "jp" -> "JP"
         [] r = "eu" -> "EU"
         [] r = "use" -> "US East"
         [] r = "usw" -> "US West"
         [] OTHER -> "US"

NoInfo == [isNull |-> TRUE, type |-> Undefined, region |-> Undefined,
           creatorId |-> Undefined, groupId |-> Undefined]

\* parseInstanceInfo of the provider, on the tokens of the location; isNull stands for
\* the null result, the empty sequence for the empty string and for undefined
parseInstanceInfo(toks) ==
    IF toks \in {<<>>, <<"offline">>, <<"private">>, <<"traveling">>} THEN NoInfo
    ELSE LET parts == SplitColon(toks) IN
         IF Len(parts) < 2
         THEN [isNull |-> FALSE, type |-> "Public", region |-> "US",
               creatorId |-> Undefined, groupId |-> Undefined]
         ELSE LET raw == parts[2] IN
              [isNull |-> FALSE, type |-> TierOf(raw), region |-> RegionOf(raw),
               creatorId |-> UsrMatch(raw), groupId |-> GrpMatch(raw)]

\* parseLocation of the snapshot endpoint, on the tokens of the location
parseLocation(toks) ==
    IF toks \in {<<>>, <<"offline">>, <<"private">>}
    THEN [instanceType |-> "Private", ownerId |-> Undefined, groupId |-> Undefined]
    ELSE LET parts == SplitColon(toks) IN
         IF Len(parts) < 2
         THEN [instanceType |-> "Public", ownerId |-> Undefined, groupId |-> Undefined]
         ELSE LET raw == parts[2] IN
              [instanceType |-> TierOf(raw), ownerId |-> UsrMatch(raw),
               groupId |-> GrpMatch(raw)]

(***************************************************************************)
(* Array.prototype.sort: a stable insertion sort over a comparator that    *)
(* returns a number (negative: a first).                                   *)
(***************************************************************************)
\* a || b for strings: undefined and the empty string are falsy
Or(a, b) == IF a \in {Undefined, ""} THEN b ELSE a

\* parseInt(tag.replace('group_', ''), 10); -1 stands for NaN
GroupNum(tag) ==
    CASE tag = "group_0" -> 0
      [] tag = "group_1" -> 1
      [] tag = "group_2" -> 2
      [] OTHER -> -1

\* the comparator of sortFriends inside rebuildInstances
FriendCmp(a, b, ownerId) ==
    LET aIsOwner == ownerId # Undefined /\ a.id = ownerId
        bIsOwner == ownerId # Undefined /\ b.id = ownerId
    IN IF aIsOwner /\ ~bIsOwner THEN -1
       ELSE IF ~aIsOwner /\ bIsOwner THEN 1
       ELSE a.joinedAt - b.joinedAt

\* where x goes in the sorted sequence s: behind every element it does not precede
RECURSIVE FriendInsertAt(_, _, _, _)
FriendInsertAt(s, x, ownerId, i) ==
    IF i = 0 THEN 0
    ELSE IF FriendCmp(x, s[i], ownerId) < 0 THEN FriendInsertAt(s, x, ownerId, i - 1)
    ELSE i

RECURSIVE sortFriends(_, _)
sortFriends(friends, ownerId) ==
    IF Len(friends) < 2 THEN friends
    ELSE LET n == Len(friends)
             s == sortFriends(SubSeq(friends, 1, n - 1), ownerId)
             k == FriendInsertAt(s, friends[n], ownerId, n - 1)
         IN SubSeq(s, 1, k) \o <<friends[n]>> \o SubSeq(s, k + 1, n - 1)

\* Math.min(...times) over the favourites of an instance, now when there are none
RECURSIVE MinJoined(_, _)
MinJoined(friends, now0) ==
    IF friends = <<>> THEN now0
    ELSE LET rest == SubSeq(friends, 2, Len(friends))
             h == friends[1].joinedAt
         IN IF rest = <<>> THEN h
            ELSE LET m == MinJoined(rest, now0) IN IF h < m THEN h ELSE m

\* a faulty comparator: the favourite group is not looked at
InstanceCmpNoGroup(a, b, now0) ==
    LET aIsHidden == a.id = "private" \/ a.worldName = "Private World"
        bIsHidden == b.id = "private" \/ b.worldName = "Private World"
        aIsTraveling == a.id = "traveling"
        bIsTraveling == b.id = "traveling"
        aOldestJoin == MinJoined(a.friends, now0)
        bOldestJoin == MinJoined(b.friends, now0)
    IN IF aIsTraveling /\ ~bIsTraveling /\ ~bIsHidden THEN 1
       ELSE IF ~aIsTraveling /\ bIsTraveling /\ ~aIsHidden THEN -1
       ELSE IF aIsTraveling /\ bIsHidden THEN -1
       ELSE IF aIsHidden /\ bIsTraveling THEN 1
       ELSE IF aIsHidden /\ ~bIsHidden THEN 1
       ELSE IF ~aIsHidden /\ bIsHidden THEN -1
       ELSE IF ~aIsHidden /\ ~bIsHidden /\ aOldestJoin # bOldestJoin
            THEN aOldestJoin - bOldestJoin
       ELSE b.userCount - a.userCount

\* the comparator of the instance sort inside rebuildInstances
InstanceCmp(a, b, now0) ==
    LET aIsHidden == a.id = "private" \/ a.worldName = "Private World"
        bIsHidden == b.id = "private" \/ b.worldName = "Private World"
        aIsTraveling == a.id = "traveling"
        bIsTraveling == b.id = "traveling"
        aOldestJoin == MinJoined(a.friends, now0)
        bOldestJoin == MinJoined(b.friends, now0)
    IN IF aIsTraveling /\ ~bIsTraveling /\ ~bIsHidden THEN 1
       ELSE IF ~aIsTraveling /\ bIsTraveling /\ ~aIsHidden THEN -1
       ELSE IF aIsTraveling /\ bIsHidden THEN -1
       ELSE IF aIsHidden /\ bIsTraveling THEN 1
       ELSE IF aIsHidden /\ ~bIsHidden THEN 1
       ELSE IF ~aIsHidden /\ bIsHidden THEN -1
       ELSE IF ~aIsHidden /\ ~bIsHidden /\ aOldestJoin # bOldestJoin
            THEN aOldestJoin - bOldestJoin
       ELSE IF a.minFavoriteGroup # b.minFavoriteGroup
            THEN a.minFavoriteGroup - b.minFavoriteGroup
       ELSE b.userCount - a.userCount

RECURSIVE InstanceInsertAt(_, _, _, _)
InstanceInsertAt(s, x, now0, i) ==
    IF i = 0 THEN 0
    ELSE IF InstanceCmp(x, s[i], now0) < 0 THEN InstanceInsertAt(s, x, now0, i - 1)
    ELSE i

RECURSIVE sortInstances(_, _)
sortInstances(insts, now0) ==
    IF Len(insts) < 2 THEN insts
    ELSE LET n == Len(insts)
             s == sortInstances(SubSeq(insts, 1, n - 1), now0)
             k == InstanceInsertAt(s, insts[n], now0, n - 1)
         IN SubSeq(s, 1, k) \o <<insts[n]>> \o SubSeq(s, k + 1, n - 1)

(***************************************************************************)
(* rebuildInstances: group the contact map by location, in the map's       *)
(* insertion order; split favourites from the others; sort; keep the       *)
(* instances with a favourite.                                             *)
(***************************************************************************)
\* the fields of the InstanceGroup created for contact f at loc, info being
\* parseInstanceInfo(loc)
InstanceGroup(f, loc, info) ==
    LET isTraveling == loc = "traveling"
    IN [id |-> loc,
        worldName |-> IF isTraveling THEN "Traveling"
                      ELSE Or(f.worldName,
                              IF IncludesPrivate(loc) THEN "Private World"
                              ELSE "World " \o WorldIdOf(loc)),
        instanceType |-> IF isTraveling THEN "Traveling"
                         ELSE Or(f.instanceType, Or(info.type, "Public")),
        region |-> IF isTraveling THEN ""
                   ELSE IF f.isPrivate \/ loc = "private" THEN ""
                   ELSE Or(info.region, "US"),
        userCount |-> 0,
        friends |-> <<>>,
        otherFriends |-> <<>>,
        minFavoriteGroup |-> 999,
        creatorId |-> IF isTraveling THEN Undefined ELSE info.creatorId,
        groupId |-> IF isTraveling THEN Undefined ELSE Or(f.groupId, info.groupId),
        ownerId |-> IF isTraveling THEN Undefined ELSE Or(f.ownerId, info.creatorId)]

\* the InstanceGroup created for the first contact met at a location
NewInstance(f, loc) == InstanceGroup(f, loc, parseInstanceInfo(Tokens(loc)))

\* a faulty push: every contact is counted
AddToInstanceCountAll(inst, id, f, joinedAt) ==
    LET fw == [id |-> id, joinedAt |-> joinedAt]
    IN IF f.isFavorite
       THEN [inst EXCEPT !.friends = Append(@, fw), !.userCount = @ + 1]
       ELSE [inst EXCEPT !.otherFriends = Append(@, fw), !.userCount = @ + 1]

\* grouped[effectiveLoc] after contact id has been pushed
AddToInstance(inst, id, f, joinedAt) ==
    LET fw == [id |-> id, joinedAt |-> joinedAt]
        groupNum == GroupNum(f.favoriteGroup)
    IN IF f.isFavorite
       THEN [inst EXCEPT !.friends = Append(@, fw),
                         !.userCount = @ + 1,
                         !.minFavoriteGroup =
                             IF f.favoriteGroup # Undefined /\ groupNum # -1 /\ groupNum < @
                             THEN groupNum ELSE @]
       ELSE [inst EXCEPT !.otherFriends = Append(@, fw)]

\* a faulty timestamp read: the time of the call, whatever is recorded
JoinedAtNow(id, stamps, now0) == now0

\* timestampData?.joinedAt || now
JoinedAtOf(id, stamps, now0) ==
    IF id \in DOMAIN stamps /\ stamps[id].joinedAt # 0 THEN stamps[id].joinedAt ELSE now0

IndexOfInstance(grouped, loc) ==
    IF \E i \in 1..Len(grouped) : grouped[i].id = loc
    THEN CHOOSE i \in 1..Len(grouped) : grouped[i].id = loc
    ELSE 0

\* the forEach over friendsDataRef building `grouped`, from the i-th contact on
RECURSIVE GroupContacts(_, _, _, _, _, _)
GroupContacts(order, data, stamps, now0, i, grouped) ==
    IF i > Len(order) THEN grouped
    ELSE LET id == order[i]
             f == data[id]
             loc == Or(f.location, "offline")
         IN IF loc = "offline"
            THEN GroupContacts(order, data, stamps, now0, i + 1, grouped)
            ELSE LET k == IndexOfInstance(grouped, loc)
                     g == IF k = 0 THEN Append(grouped, NewInstance(f, loc)) ELSE grouped
                     j == IF k = 0 THEN Len(g) ELSE k
                     joinedAt == JoinedAtOf(id, stamps, now0)
                 IN GroupContacts(order, data, stamps, now0, i + 1,
                        [g EXCEPT ![j] = AddToInstance(@, id, f, joinedAt)])

\* a faulty filter: an instance is kept whoever is in it
KeepInstanceAll(inst) == inst.userCount >= 0

\* inst => inst.userCount > 0
KeepInstance(inst) == inst.userCount > 0

rebuildInstances(order, data, stamps, now0) ==
    LET grouped == GroupContacts(order, data, stamps, now0, 1, <<>>)
        sorted == [i \in 1..Len(grouped) |->
                     [grouped[i] EXCEPT
                        !.friends = sortFriends(@, grouped[i].ownerId),
                        !.otherFriends = sortFriends(@, grouped[i].ownerId)]]
    IN sortInstances(SelectSeq(sorted, KeepInstance), now0)

(***************************************************************************)
(* State.                                                                  *)
(***************************************************************************)
VARIABLES
    mounted,             \* "no" before the provider mounts, "yes", "gone" after cleanup
    now,                 \* Date.now()
    upLoc,               \* the upstream platform: where each user is ("gone": signed off)
    friendsOrder,        \* friendsDataRef: the Map's keys in insertion order
    friendsData,         \* friendsDataRef: id -> contact
    favoriteIds,         \* favoriteIdsRef
    favoriteGroups,      \* favoriteGroupsRef
    locationTimestamps,  \* locationTimestampsRef: id -> [location, joinedAt]
    worldCache,          \* worldCacheRef: venue id -> [name, cachedAt]
    lsTimestamps,        \* localStorage vrc_location_timestamps
    lsWorldCache,        \* localStorage vrc_world_cache
    lsLogs,              \* localStorage vrc_logs: the activity log, newest entry first
    instances,           \* React state: the rebuilt instance list
    offlineFriends,      \* React state: the offline favourites (ids)
    isFirstLoad,         \* isFirstLoadRef
    isAuthenticated,     \* React state
    isAuthenticatedRef,  \* the logged-out latch is this ref being FALSE
    authEffectSeen,      \* the isAuthenticated value the auth effect last ran with
    conn,                \* eventSourceRef, reconnectTimeoutRef, the browser's sources and timers
    pendingWorld,        \* fetchWorldInfo calls in flight, with the event that started each
    fetch,               \* the fetchFriends call in flight
    relay,               \* the stream request serving the provider's latest EventSource
    sseQueue,            \* messages enqueued on that request's browser channel, not yet delivered
    rateLimitStore,      \* rateLimitStore of the server process: key -> [count, resetTime]
    soloStore,           \* the store as the provider's own requests alone would have left it
    other,               \* the stream request of another browser session, and its channel
    streamStatus,        \* the status of the latest answer to a stream request of the provider
    newer,               \* users whose push event, newer than the snapshot in flight, was applied
    fetchCount,          \* the calls of fetchFriends so far
    lastResolve,         \* how the latest fetchWorldInfo(...).then(...) ended
    call                 \* a function of the program called on its own: input and result

vars == <<mounted, now, upLoc, friendsOrder, friendsData, favoriteIds, favoriteGroups,
          locationTimestamps, worldCache, lsTimestamps, lsWorldCache, lsLogs, instances,
          offlineFriends, isFirstLoad, isAuthenticated, isAuthenticatedRef, authEffectSeen,
          conn, pendingWorld, fetch, relay, sseQueue, rateLimitStore, soloStore, other,
          streamStatus, newer, fetchCount, lastResolve, call>>

\* what no action of the provider writes
srvVars == <<rateLimitStore, soloStore, other, streamStatus, call>>

dataVars == <<friendsOrder, friendsData, favoriteIds, favoriteGroups, locationTimestamps,
              worldCache, lsTimestamps, lsWorldCache, lsLogs, instances, offlineFriends,
              isFirstLoad, pendingWorld>>

EmptyMap == [x \in {} |-> Undefined]

ClockStep == 12 * 60 * 60 * 1000
WORLD_CACHE_TTL == 24 * 60 * 60 * 1000
RECONNECT_DELAY == 5000
LOG_LIMIT == 500
STREAM_WINDOW == 60 * 1000
STREAM_MAX == 5

\* Map.prototype.set / delete on a function and on the key order
MapSet(m, k, v) == [x \in DOMAIN m \cup {k} |-> IF x = k THEN v ELSE m[x]]
MapDelete(m, k) == [x \in DOMAIN m \ {k} |-> m[x]]
OrderSet(order, k) ==
    IF \E i \in 1..Len(order) : order[i] = k THEN order ELSE Append(order, k)
OrderDelete(order, k) == SelectSeq(order, LAMBDA x : x # k)

\* the name the platform gives a venue
NameOf(worldId) == IF worldId = "wrld_1" THEN "World One" ELSE "World Two"

\* no call: the fields of a call, empty
NoCall ==
    [fn |-> "none", done |-> {}, location |-> <<>>, info |-> NoInfo,
     parsed |-> [instanceType |-> Undefined, ownerId |-> Undefined, groupId |-> Undefined],
     pages |-> <<>>, favoriteIds |-> {}, found |-> {},
     resp |-> [status |-> 0, friends |-> <<>>, offlineFriends |-> {}, requests |-> <<>>],
     favorites |-> [favoriteIds |-> {}, requests |-> <<>>],
     key |-> Undefined, limited |-> FALSE, admitted |-> EmptyMap,
     retry |-> FALSE, rejected |-> {}]

IdleFetch == [pc |-> "idle", kind |-> "none", result |-> "none",
              upLoc |-> [u \in Users |-> "gone"], resolved |-> FALSE]

\* wsCount: the WebSocket objects the request has constructed
IdleRelay == [phase |-> "idle", es |-> 0, ws |-> "none", wsRef |-> FALSE,
              isConnectionClosed |-> FALSE, pingInterval |-> FALSE, wsCount |-> 0]

InitConn == [eventSourceRef |-> 0, readyState |-> <<>>, reconnectTimeoutRef |-> 0,
             timers |-> {}, timerCount |-> 0, wsConnectionState |-> "disconnected"]

Init ==
    /\ mounted = "no"
    /\ now = ClockStep
    /\ upLoc = [u \in Users |-> "gone"]
    /\ friendsOrder = <<>>
    /\ friendsData = EmptyMap
    /\ favoriteIds = {}
    /\ favoriteGroups = EmptyMap
    /\ locationTimestamps = EmptyMap
    /\ worldCache = EmptyMap
    /\ lsTimestamps = EmptyMap
    /\ lsWorldCache = EmptyMap
    /\ lsLogs = <<>>
    /\ instances = <<>>
    /\ offlineFriends = <<>>
    /\ isFirstLoad = TRUE
    /\ isAuthenticated = FALSE
    /\ isAuthenticatedRef = FALSE
    /\ authEffectSeen = FALSE
    /\ conn = InitConn
    /\ pendingWorld = {}
    /\ fetch = IdleFetch
    /\ relay = IdleRelay
    /\ sseQueue = <<>>
    /\ rateLimitStore = EmptyMap
    /\ soloStore = EmptyMap
    /\ other = [r |-> IdleRelay, q |-> <<>>]
    /\ streamStatus = 0
    /\ newer = {}
    /\ fetchCount = 0
    /\ lastResolve = "none"
    /\ call = NoCall

(***************************************************************************)
(* The provider's connection management.  The handlers are functions of    *)
(* the connection record, so that one dispatched event can run several.    *)
(***************************************************************************)
ClearTimeout(c) ==
    [c EXCEPT !.timers = {t \in @ : t.id # c.reconnectTimeoutRef}]

SetTimeout(c) ==
    [c EXCEPT !.timers = @ \cup {[id |-> c.timerCount + 1, delay |-> RECONNECT_DELAY]},
              !.timerCount = @ + 1,
              !.reconnectTimeoutRef = c.timerCount + 1]

CloseSource(c, es) ==
    IF es = 0 THEN c ELSE [c EXCEPT !.readyState[es] = "closed"]

disconnectSSE(c) ==
    LET c1 == IF c.reconnectTimeoutRef # 0
              THEN [ClearTimeout(c) EXCEPT !.reconnectTimeoutRef = 0]
              ELSE c
        c2 == IF c1.eventSourceRef # 0
              THEN [CloseSource(c1, c1.eventSourceRef) EXCEPT !.eventSourceRef = 0]
              ELSE c1
    IN [c2 EXCEPT !.wsConnectionState = "disconnected"]

connectSSE(c, authRef) ==
    IF ~authRef THEN c
    ELSE LET c1 == CloseSource(c, c.eventSourceRef)
         IN [c1 EXCEPT !.wsConnectionState = "connecting",
                       !.readyState = Append(@, "connecting"),
                       !.eventSourceRef = Len(c1.readyState) + 1]

\* eventSource.addEventListener('error', ...)
ErrorListener(c, authRef) ==
    IF ~authRef THEN disconnectSSE(c)
    ELSE LET c1 == [c EXCEPT !.wsConnectionState = "reconnecting"]
             c2 == IF c1.reconnectTimeoutRef # 0 THEN ClearTimeout(c1) ELSE c1
         IN SetTimeout(c2)

\* a faulty onerror: the latch is not looked at
OnErrorNoLatch(c, authRef, es) ==
    LET c1 == [CloseSource(c, es) EXCEPT !.wsConnectionState = "reconnecting"]
        c2 == IF c1.reconnectTimeoutRef # 0 THEN ClearTimeout(c1) ELSE c1
    IN SetTimeout(c2)

\* a faulty onerror: the timer the first listener has set is not cleared
OnErrorNoClear(c, authRef, es) ==
    IF ~authRef THEN disconnectSSE(c)
    ELSE SetTimeout([CloseSource(c, es) EXCEPT !.wsConnectionState = "reconnecting"])

\* eventSource.onerror
OnError(c, authRef, es) ==
    IF ~authRef THEN disconnectSSE(c)
    ELSE LET c1 == [CloseSource(c, es) EXCEPT !.wsConnectionState = "reconnecting"]
             c2 == IF c1.reconnectTimeoutRef # 0 THEN ClearTimeout(c1) ELSE c1
         IN SetTimeout(c2)

\* an event of type error dispatched at source es: the listeners run in the order
\* they were registered
DispatchError(c, authRef, es) == OnError(ErrorListener(c, authRef), authRef, es)

\* the callback of the reconnect timer
ReconnectCallback(c, authRef) ==
    IF authRef THEN connectSSE(c, authRef) ELSE c

OpenSources(c) == {i \in 1..Len(c.readyState) : c.readyState[i] # "closed"}

(***************************************************************************)
(* The relay: GET /api/friends/stream.                                     *)
(***************************************************************************)
\* the user object the platform holds for a contact and sends in a friend event, until
\* the contact changes it; the four properties the provider reads
PlatformUser ==
    [displayName |-> "name", status |-> "active", statusDescription |-> "hello",
     userIcon |-> "icon"]

\* data.user of a payload that carries none
NoUser ==
    [displayName |-> Undefined, status |-> Undefined, statusDescription |-> Undefined,
     userIcon |-> Undefined]

\* the user objects a friend-update event may carry: a new status, a new status
\* message, a cleared message, no status properties at all, a new name and icon
UpdateUsers ==
    {PlatformUser,
     [PlatformUser EXCEPT !.status = "busy"],
     [PlatformUser EXCEPT !.statusDescription = "brb"],
     [PlatformUser EXCEPT !.status = "busy", !.statusDescription = ""],
     [PlatformUser EXCEPT !.status = Undefined, !.statusDescription = Undefined],
     [NoUser EXCEPT !.displayName = "renamed", !.userIcon = "icon2"]}

\* the inner payload of a friend event; hasWorld: it carries data.world, hasUser: it
\* carries data.user
Payload(userId, location, hasWorld, hasUser) ==
    [defined |-> TRUE, userId |-> userId, location |-> location, hasWorld |-> hasWorld,
     hasUser |-> hasUser, user |-> IF hasUser THEN PlatformUser ELSE NoUser]

\* the value undefined where a payload is expected
NoPayload ==
    [defined |-> FALSE, userId |-> Undefined, location |-> Undefined, hasWorld |-> FALSE,
     hasUser |-> FALSE, user |-> NoUser]

\* the message sendSSE writes for (event, data): JSON.stringify(undefined) is
\* undefined, so the data line of a message without payload is the text "undefined",
\* which JSON.parse in the browser rejects
PushMsg(type, data) ==
    [type |-> type, userId |-> data.userId, location |-> data.location,
     hasWorld |-> data.hasWorld, hasUser |-> data.hasUser, user |-> data.user,
     parses |-> data.defined, fresh |-> fetch.pc = "served"]

Msg(type, userId, location, hasWorld) ==
    PushMsg(type, Payload(userId, location, hasWorld, TRUE))

Control(type) == Msg(type, Undefined, Undefined, FALSE)

sendSSE(r, q, msg) == IF r.isConnectionClosed THEN q ELSE Append(q, msg)

\* room on the channel for what a handler may enqueue
Room == relay.isConnectionClosed \/ Len(sseQueue) < MaxQueue

\* getClientId: the first address of x-forwarded-for, else x-real-ip, else 'unknown'
getClientId(forwarded, realIp) == Or(forwarded, Or(realIp, "unknown"))

\* the headers of the provider's browser, and of the other session's
ProviderForwarded == "ip_1"
OtherForwarded == {"ip_1", "ip_2"}

\* cleanupExpiredEntries
cleanupExpiredEntries(store, now0) ==
    [k \in {x \in DOMAIN store : ~(now0 > store[x].resetTime)} |-> store[k]]

RATE_LIMIT_CONFIG ==
    [login |-> [windowMs |-> 15 * 60 * 1000, maxRequests |-> 5],
     verify |-> [windowMs |-> 15 * 60 * 1000, maxRequests |-> 10],
     api |-> [windowMs |-> 60 * 1000, maxRequests |-> 60],
     user |-> [windowMs |-> 60 * 1000, maxRequests |-> 30],
     friends |-> [windowMs |-> 60 * 1000, maxRequests |-> 20],
     friendDetail |-> [windowMs |-> 60 * 1000, maxRequests |-> 60],
     worlds |-> [windowMs |-> 60 * 1000, maxRequests |-> 60],
     stream |-> [windowMs |-> STREAM_WINDOW, maxRequests |-> STREAM_MAX]]

\* a faulty limiter: the request that finds the count at the limit is still admitted
checkRateLimitOfLate(store0, type, clientId, now0, cleanup) ==
    LET config == RATE_LIMIT_CONFIG[type]
        key == type \o ":" \o clientId
        store == IF cleanup THEN cleanupExpiredEntries(store0, now0) ELSE store0
    IN IF key \notin DOMAIN store \/ now0 > store[key].resetTime
       THEN [limited |-> FALSE,
             store |-> MapSet(store, key, [count |-> 1,
                                           resetTime |-> now0 + config.windowMs])]
       ELSE IF store[key].count > config.maxRequests
       THEN [limited |-> TRUE, store |-> store]
       ELSE [limited |-> FALSE,
             store |-> MapSet(store, key, [count |-> store[key].count + 1,
                                           resetTime |-> store[key].resetTime])]

\* a faulty limiter: a rejected request begins the window of its key anew
checkRateLimitOfSliding(store0, type, clientId, now0, cleanup) ==
    LET config == RATE_LIMIT_CONFIG[type]
        key == type \o ":" \o clientId
        store == IF cleanup THEN cleanupExpiredEntries(store0, now0) ELSE store0
    IN IF key \notin DOMAIN store \/ now0 > store[key].resetTime
       THEN [limited |-> FALSE,
             store |-> MapSet(store, key, [count |-> 1,
                                           resetTime |-> now0 + config.windowMs])]
       ELSE IF store[key].count >= config.maxRequests
       THEN [limited |-> TRUE,
             store |-> MapSet(store, key, [count |-> store[key].count,
                                           resetTime |-> now0 + config.windowMs])]
       ELSE [limited |-> FALSE,
             store |-> MapSet(store, key, [count |-> store[key].count + 1,
                                           resetTime |-> store[key].resetTime])]

\* checkRateLimit(req, type) for any route type
checkRateLimitOf(store0, type, clientId, now0, cleanup) ==
    LET config == RATE_LIMIT_CONFIG[type]
        key == type \o ":" \o clientId
        store == IF cleanup THEN cleanupExpiredEntries(store0, now0) ELSE store0
    IN IF key \notin DOMAIN store \/ now0 > store[key].resetTime
       THEN [limited |-> FALSE,
             store |-> MapSet(store, key, [count |-> 1,
                                           resetTime |-> now0 + config.windowMs])]
       ELSE IF store[key].count >= config.maxRequests
       THEN [limited |-> TRUE, store |-> store]
       ELSE [limited |-> FALSE,
             store |-> MapSet(store, key, [count |-> store[key].count + 1,
                                           resetTime |-> store[key].resetTime])]

\* checkRateLimit(req, 'stream'): whether the request is limited, and the store after
\* it; cleanup: Math.random() < 0.01
checkRateLimit(store0, clientId, now0, cleanup) ==
    checkRateLimitOf(store0, "stream", clientId, now0, cleanup)

\* a faulty check: the cookie is not looked at
StreamStatusNoAuth(limited, hasCookie) ==
    IF limited THEN 429 ELSE 200

\* the status GET /api/friends/stream answers with
StreamStatus(limited, hasCookie) ==
    IF limited THEN 429 ELSE IF ~hasCookie THEN 401 ELSE 200

\* start(controller): the interval is set, the WebSocket constructed
StartStream(es) ==
    [phase |-> "running", es |-> es, ws |-> "connecting", wsRef |-> TRUE,
     isConnectionClosed |-> FALSE, pingInterval |-> TRUE, wsCount |-> 1]

\* GET /api/friends/stream for the provider's source es.  On 200 start() runs; on 429
\* or 401 nothing is started and the browser fails the source with an error event.
RelayGET(es, hasCookie) ==
    /\ es = conn.eventSourceRef
    /\ es # 0
    /\ conn.readyState[es] = "connecting"
    /\ \E cleanup \in BOOLEAN :
          LET id == getClientId(ProviderForwarded, Undefined)
              rc == checkRateLimit(rateLimitStore, id, now, cleanup)
              status == StreamStatus(rc.limited, hasCookie)
          IN /\ rateLimitStore' = rc.store
             /\ soloStore' = checkRateLimit(soloStore, id, now, cleanup).store
             /\ streamStatus' = status
             /\ IF status = 200
                THEN /\ relay.phase \in {"idle", "cancelled"}
                     /\ relay' = StartStream(es)
                     /\ sseQueue' = <<>>
                     /\ conn' = [conn EXCEPT !.readyState[es] = "open"]
                ELSE /\ Len(conn.readyState) < MaxConnects
                     /\ conn' = DispatchError(conn, isAuthenticatedRef, es)
                     /\ UNCHANGED <<relay, sseQueue>>
    /\ UNCHANGED <<mounted, now, upLoc, dataVars, isAuthenticated, isAuthenticatedRef,
                   authEffectSeen, fetch, other, newer, fetchCount, lastResolve, call>>

\* the request of a browser that holds the auth cookie
RelayAccept(es) == RelayGET(es, TRUE)

\* ws.on('open')
WsOnOpen ==
    /\ relay.phase # "idle"
    /\ relay.ws = "connecting"
    /\ Room
    /\ relay' = [relay EXCEPT !.ws = "open"]
    /\ sseQueue' = sendSSE(relay, sseQueue, Control("connected"))
    /\ UNCHANGED <<mounted, now, upLoc, dataVars, isAuthenticated, isAuthenticatedRef,
                   authEffectSeen, conn, fetch, newer, fetchCount, lastResolve>>
    /\ UNCHANGED srvVars

\* relevantEvents
RelevantEvents ==
    {"friend-online", "friend-offline", "friend-location", "friend-update", "friend-add",
     "friend-delete", "friend-active"}

\* an upstream frame.  envelope: JSON.parse(data.toString()) succeeds; content: what
\* message.content is, "string" (decodes: JSON.parse accepts it and gives payload),
\* "object" (payload, not serialized) or "absent"
Frame(envelope, type, content, decodes, payload) ==
    [envelope |-> envelope, type |-> type, content |-> content, decodes |-> decodes,
     payload |-> payload]

\* the frame the platform sends for a friend event
EventFrame(type, userId, location, hasWorld) ==
    Frame(TRUE, type, "string", TRUE, Payload(userId, location, hasWorld, TRUE))

\* a faulty handler: the type of the frame is not looked at
OnWsMessageAnyType(r, q, f) ==
    IF ~f.envelope \/ (f.content = "string" /\ ~f.decodes) THEN q
    ELSE sendSSE(r, q, PushMsg(f.type, IF f.content = "absent" THEN NoPayload
                                       ELSE f.payload))

\* ws.on('message'): the channel after frame f.  Both JSON.parse calls are inside
\* the try; a throw is caught and logged
OnWsMessage(r, q, f) ==
    IF ~f.envelope THEN q
    ELSE IF f.content = "string" /\ ~f.decodes THEN q
    ELSE LET content == IF f.content = "absent" THEN NoPayload ELSE f.payload
         IN IF f.type \in RelevantEvents THEN sendSSE(r, q, PushMsg(f.type, content))
            ELSE q

\* ws.on('message') for the frame of a friend event
WsOnMessage(type, userId, location, hasWorld) ==
    sseQueue' = OnWsMessage(relay, sseQueue, EventFrame(type, userId, location, hasWorld))

\* ws.on('error')
OnWsError(r, q) ==
    IF ~r.isConnectionClosed THEN sendSSE(r, q, Control("error")) ELSE q

\* ws.on('close')
OnWsClose(r, q) ==
    IF ~r.isConnectionClosed THEN sendSSE(r, q, Control("disconnected")) ELSE q

\* the upstream connection fails: the ws library emits error, and close after it
UpstreamFail ==
    /\ relay.ws \in {"connecting", "open"}
    /\ Len(conn.readyState) < MaxConnects
    /\ Room
    /\ relay' = [relay EXCEPT !.ws = "failed"]
    /\ sseQueue' = OnWsError(relay, sseQueue)
    /\ UNCHANGED <<mounted, now, upLoc, dataVars, isAuthenticated, isAuthenticatedRef,
                   authEffectSeen, conn, fetch, newer, fetchCount, lastResolve>>
    /\ UNCHANGED srvVars

\* ws.close() on a socket still connecting aborts the handshake: error, then close
AbortError ==
    /\ relay.ws = "aborting"
    /\ Room
    /\ relay' = [relay EXCEPT !.ws = "failed"]
    /\ sseQueue' = OnWsError(relay, sseQueue)
    /\ UNCHANGED <<mounted, now, upLoc, dataVars, isAuthenticated, isAuthenticatedRef,
                   authEffectSeen, conn, fetch, newer, fetchCount, lastResolve>>
    /\ UNCHANGED srvVars

\* the upstream platform closes the connection
UpstreamClose ==
    /\ relay.ws = "open"
    /\ Len(conn.readyState) < MaxConnects
    /\ Room
    /\ relay' = [relay EXCEPT !.ws = "closed"]
    /\ sseQueue' = OnWsClose(relay, sseQueue)
    /\ UNCHANGED <<mounted, now, upLoc, dataVars, isAuthenticated, isAuthenticatedRef,
                   authEffectSeen, conn, fetch, newer, fetchCount, lastResolve>>
    /\ UNCHANGED srvVars

\* a faulty close handler: the relay connects upstream again
WsClosedRetry ==
    /\ relay.ws \in {"failed", "closing"}
    /\ Room
    /\ relay' = [relay EXCEPT !.ws = "connecting", !.wsCount = @ + 1]
    /\ sseQueue' = OnWsClose(relay, sseQueue)
    /\ UNCHANGED <<mounted, now, upLoc, dataVars, isAuthenticated, isAuthenticatedRef,
                   authEffectSeen, conn, fetch, newer, fetchCount, lastResolve>>
    /\ UNCHANGED srvVars

\* a failure or a close started by cancel() completes
WsClosed ==
    /\ relay.ws \in {"failed", "closing"}
    /\ Room
    /\ relay' = [relay EXCEPT !.ws = "closed"]
    /\ sseQueue' = OnWsClose(relay, sseQueue)
    /\ UNCHANGED <<mounted, now, upLoc, dataVars, isAuthenticated, isAuthenticatedRef,
                   authEffectSeen, conn, fetch, newer, fetchCount, lastResolve>>
    /\ UNCHANGED srvVars

\* the setInterval callback, every 15 s
PingTick ==
    /\ relay.pingInterval
    /\ Room
    /\ sseQueue' = IF ~relay.isConnectionClosed
                   THEN sendSSE(relay, sseQueue, Control("ping"))
                   ELSE sseQueue
    /\ UNCHANGED <<mounted, now, upLoc, dataVars, isAuthenticated, isAuthenticatedRef,
                   authEffectSeen, conn, fetch, relay, newer, fetchCount, lastResolve>>
    /\ UNCHANGED srvVars

\* a faulty cancel(): the heartbeat interval is left running
cancelKeepsTimer(r) ==
    [r EXCEPT !.phase = "cancelled",
              !.isConnectionClosed = TRUE,
              !.ws = IF r.wsRef
                     THEN (CASE r.ws = "connecting" -> "aborting"
                             [] r.ws = "open" -> "closing"
                             [] OTHER -> r.ws)
                     ELSE r.ws,
              !.wsRef = FALSE]

\* cancel(): the browser closed the channel
cancel(r) ==
    [r EXCEPT !.phase = "cancelled",
              !.isConnectionClosed = TRUE,
              !.pingInterval = FALSE,
              !.ws = IF r.wsRef
                     THEN (CASE r.ws = "connecting" -> "aborting"
                             [] r.ws = "open" -> "closing"
                             [] OTHER -> r.ws)
                     ELSE r.ws,
              !.wsRef = FALSE]

RelayCancel ==
    /\ relay.phase = "running"
    /\ conn.readyState[relay.es] = "closed"
    /\ relay' = cancel(relay)
    /\ UNCHANGED <<mounted, now, upLoc, dataVars, isAuthenticated, isAuthenticatedRef,
                   authEffectSeen, conn, fetch, sseQueue, newer, fetchCount, lastResolve>>
    /\ UNCHANGED srvVars

\* another browser session requests the stream
OtherGET(forwarded, hasCookie) ==
    /\ other.r.phase \in {"idle", "cancelled"}
    /\ \E cleanup \in BOOLEAN :
          LET rc == checkRateLimit(rateLimitStore, getClientId(forwarded, Undefined),
                                   now, cleanup)
          IN /\ rateLimitStore' = rc.store
             /\ other' = IF StreamStatus(rc.limited, hasCookie) = 200
                          THEN [r |-> StartStream(0), q |-> <<>>]
                          ELSE other
    /\ UNCHANGED <<mounted, now, upLoc, dataVars, isAuthenticated, isAuthenticatedRef,
                   authEffectSeen, conn, fetch, relay, sseQueue, soloStore, streamStatus,
                   newer, fetchCount, lastResolve, call>>

\* the other session's upstream connection fails
OtherFail ==
    /\ other.r.ws \in {"connecting", "open"}
    /\ other.r.isConnectionClosed \/ Len(other.q) < MaxQueue
    /\ other' = [r |-> [other.r EXCEPT !.ws = "failed"], q |-> OnWsError(other.r, other.q)]
    /\ UNCHANGED <<mounted, now, upLoc, dataVars, isAuthenticated, isAuthenticatedRef,
                   authEffectSeen, conn, fetch, relay, sseQueue, rateLimitStore, soloStore,
                   streamStatus, newer, fetchCount, lastResolve, call>>

\* the other session's browser leaves: cancel()
OtherCancel ==
    /\ other.r.phase = "running"
    /\ other' = [other EXCEPT !.r = cancel(other.r)]
    /\ UNCHANGED <<mounted, now, upLoc, dataVars, isAuthenticated, isAuthenticatedRef,
                   authEffectSeen, conn, fetch, relay, sseQueue, rateLimitStore, soloStore,
                   streamStatus, newer, fetchCount, lastResolve, call>>

(***************************************************************************)
(* handleSSEEvent.                                                         *)
(***************************************************************************)
\* addLogEntry: the entry is put in front of the stored log, which is cut to 500.
\* The id is Date.now() (the random fraction left out); the user's id stands for
\* the display name; seq numbers the writes since the log was last empty.
LogCount(logs) == IF logs = <<>> THEN 0 ELSE Head(logs).seq

\* a faulty addLogEntry: the entry is put behind the stored log
addLogEntryAppend(logs, type, user) ==
    LET newLog == [id |-> now, type |-> type, user |-> user, seq |-> LogCount(logs) + 1]
        updated == logs \o <<newLog>>
    IN SubSeq(updated, 1, IF Len(updated) < LOG_LIMIT THEN Len(updated) ELSE LOG_LIMIT)

addLogEntry(logs, type, user) ==
    LET newLog == [id |-> now, type |-> type, user |-> user, seq |-> LogCount(logs) + 1]
        updated == <<newLog>> \o logs
    IN SubSeq(updated, 1, IF Len(updated) < LOG_LIMIT THEN Len(updated) ELSE LOG_LIMIT)

\* data.world?.name
EventWorldName(location, hasWorld) ==
    IF hasWorld /\ StartsWithWrld(location) THEN NameOf(WorldIdOf(location)) ELSE Undefined

\* the venue name an online or location event settles on at once
ResolvedName(location, hasWorld) ==
    LET given == EventWorldName(location, hasWorld) IN
    IF given = Undefined /\ StartsWithWrld(location)
          /\ WorldIdOf(location) \in DOMAIN worldCache
    THEN worldCache[WorldIdOf(location)].name
    ELSE given

\* the event starts fetchWorldInfo(worldId).then(...)
StartsResolve(location, hasWorld) ==
    /\ EventWorldName(location, hasWorld) = Undefined
    /\ StartsWithWrld(location)
    /\ WorldIdOf(location) \notin DOMAIN worldCache

PendingAfter(userId, location, hasWorld) ==
    IF StartsResolve(location, hasWorld)
    THEN pendingWorld \cup {[userId |-> userId, location |-> location,
                             worldId |-> WorldIdOf(location)]}
    ELSE pendingWorld

\* case 'friend-online'; without data.user the read of user.displayName throws, after
\* the venue resolution has been started and before anything is written
HandleOnline(userId, location, hasWorld, hasUser, user) ==
    LET worldName == ResolvedName(location, hasWorld)
        contact == [name |-> user.displayName,
                    status |-> Or(user.status, "active"),
                    statusMsg |-> user.statusDescription,
                    icon |-> Or(user.userIcon, ""),
                    location |-> location,
                    worldName |-> Or(worldName, IF location = "private"
                                                THEN "Private World" ELSE Undefined),
                    isPrivate |-> location = "private",
                    isFavorite |-> userId \in favoriteIds,
                    favoriteGroup |-> IF userId \in DOMAIN favoriteGroups
                                      THEN favoriteGroups[userId] ELSE Undefined,
                    instanceType |-> Undefined,
                    ownerId |-> Undefined,
                    groupId |-> Undefined]
    IN /\ pendingWorld' = PendingAfter(userId, location, hasWorld)
       /\ IF hasUser
          THEN /\ friendsData' = MapSet(friendsData, userId, contact)
               /\ friendsOrder' = OrderSet(friendsOrder, userId)
               /\ locationTimestamps' = MapSet(locationTimestamps, userId,
                                               [location |-> location, joinedAt |-> now])
               /\ lsTimestamps' = locationTimestamps'
               /\ lsLogs' = IF contact.isFavorite
                            THEN addLogEntry(lsLogs, "OnLine", userId) ELSE lsLogs
               /\ instances' = rebuildInstances(friendsOrder', friendsData',
                                                locationTimestamps', now)
          ELSE UNCHANGED <<friendsData, friendsOrder, locationTimestamps, lsTimestamps,
                           lsLogs, instances>>
       /\ UNCHANGED <<favoriteIds, favoriteGroups, worldCache, lsWorldCache,
                      offlineFriends, isFirstLoad>>

\* a faulty 'friend-offline': the timestamp goes, the contact stays in the map
HandleOfflineKeep(userId) ==
    /\ locationTimestamps' = MapDelete(locationTimestamps, userId)
    /\ lsTimestamps' = locationTimestamps'
    /\ lsLogs' = IF userId \in DOMAIN friendsData /\ friendsData[userId].isFavorite
                 THEN addLogEntry(lsLogs, "Offline", userId) ELSE lsLogs
    /\ instances' = rebuildInstances(friendsOrder, friendsData, locationTimestamps', now)
    /\ UNCHANGED <<friendsOrder, friendsData, favoriteIds, favoriteGroups, worldCache,
                   lsWorldCache, offlineFriends, isFirstLoad, pendingWorld>>

\* case 'friend-offline'
HandleOffline(userId) ==
    /\ friendsData' = MapDelete(friendsData, userId)
    /\ friendsOrder' = OrderDelete(friendsOrder, userId)
    /\ locationTimestamps' = MapDelete(locationTimestamps, userId)
    /\ lsTimestamps' = locationTimestamps'
    /\ lsLogs' = IF userId \in DOMAIN friendsData /\ friendsData[userId].isFavorite
                 THEN addLogEntry(lsLogs, "Offline", userId) ELSE lsLogs
    /\ instances' = rebuildInstances(friendsOrder', friendsData', locationTimestamps', now)
    /\ UNCHANGED <<favoriteIds, favoriteGroups, worldCache, lsWorldCache,
                   offlineFriends, isFirstLoad, pendingWorld>>

\* case 'friend-location'; without data.user the read of user.displayName throws, after
\* the venue resolution has been started and before anything is written
HandleLocation(userId, location, hasWorld, hasUser, user) ==
    LET tracked == userId \in DOMAIN friendsData
        worldName == ResolvedName(location, hasWorld)
        contact ==
            [name |-> user.displayName,
             status |-> Or(user.status,
                           IF tracked THEN Or(friendsData[userId].status, "active")
                           ELSE "active"),
             statusMsg |-> Or(user.statusDescription,
                              IF tracked THEN friendsData[userId].statusMsg ELSE Undefined),
             icon |-> Or(user.userIcon,
                         IF tracked THEN Or(friendsData[userId].icon, "") ELSE ""),
             location |-> location,
             worldName |-> Or(worldName, IF location = "private"
                                         THEN "Private World" ELSE Undefined),
             isPrivate |-> location = "private",
             isFavorite |-> IF tracked THEN friendsData[userId].isFavorite
                            ELSE userId \in favoriteIds,
             favoriteGroup |-> IF tracked /\ friendsData[userId].favoriteGroup # Undefined
                               THEN friendsData[userId].favoriteGroup
                               ELSE IF userId \in DOMAIN favoriteGroups
                               THEN favoriteGroups[userId] ELSE Undefined,
             instanceType |-> IF tracked THEN friendsData[userId].instanceType ELSE Undefined,
             ownerId |-> IF tracked THEN friendsData[userId].ownerId ELSE Undefined,
             groupId |-> IF tracked THEN friendsData[userId].groupId ELSE Undefined]
    IN /\ pendingWorld' = PendingAfter(userId, location, hasWorld)
       /\ IF hasUser
          THEN /\ friendsData' = MapSet(friendsData, userId, contact)
               /\ friendsOrder' = OrderSet(friendsOrder, userId)
               /\ locationTimestamps' = MapSet(locationTimestamps, userId,
                                               [location |-> location, joinedAt |-> now])
               /\ lsTimestamps' = locationTimestamps'
               /\ lsLogs' = IF contact.isFavorite
                            THEN addLogEntry(lsLogs, "GPS", userId) ELSE lsLogs
               /\ instances' = rebuildInstances(friendsOrder', friendsData',
                                                locationTimestamps', now)
          ELSE UNCHANGED <<friendsData, friendsOrder, locationTimestamps, lsTimestamps,
                           lsLogs, instances>>
       /\ UNCHANGED <<favoriteIds, favoriteGroups, worldCache, lsWorldCache,
                      offlineFriends, isFirstLoad>>

\* a faulty 'friend-update': the entries are written whether or not the values differ
HandleUpdateLogAll(userId, hasUser, user) ==
    IF userId \in DOMAIN friendsData /\ hasUser
    THEN LET existingFriend == friendsData[userId]
             newStatus == Or(user.status, existingFriend.status)
             newStatusMsg == IF user.statusDescription = Undefined
                             THEN existingFriend.statusMsg ELSE user.statusDescription
             afterStatus == IF existingFriend.isFavorite
                            THEN addLogEntry(lsLogs, "Status", userId) ELSE lsLogs
         IN /\ lsLogs' = IF existingFriend.isFavorite
                          THEN addLogEntry(afterStatus, "StatusMsg", userId)
                          ELSE afterStatus
            /\ friendsData' = [friendsData EXCEPT
                                  ![userId].name = user.displayName,
                                  ![userId].status = newStatus,
                                  ![userId].statusMsg = newStatusMsg,
                                  ![userId].icon = Or(user.userIcon, existingFriend.icon)]
            /\ instances' = rebuildInstances(friendsOrder, friendsData',
                                             locationTimestamps, now)
            /\ UNCHANGED <<friendsOrder, favoriteIds, favoriteGroups, locationTimestamps,
                           worldCache, lsTimestamps, lsWorldCache, offlineFriends,
                           isFirstLoad, pendingWorld>>
    ELSE UNCHANGED dataVars

\* a faulty 'friend-update': the contact is stored with the event's location, as the
\* location handler stores it
HandleUpdateMoves(userId, hasUser, user) ==
    IF hasUser
    THEN /\ friendsData' = MapSet(friendsData, userId,
                                  [name |-> user.displayName,
                                   status |-> Or(user.status, "active"),
                                   statusMsg |-> user.statusDescription,
                                   icon |-> Or(user.userIcon, ""),
                                   location |-> Undefined, worldName |-> Undefined,
                                   isPrivate |-> FALSE,
                                   isFavorite |-> userId \in favoriteIds,
                                   favoriteGroup |-> Undefined, instanceType |-> Undefined,
                                   ownerId |-> Undefined, groupId |-> Undefined])
         /\ friendsOrder' = OrderSet(friendsOrder, userId)
         /\ instances' = rebuildInstances(friendsOrder', friendsData',
                                          locationTimestamps, now)
         /\ UNCHANGED <<favoriteIds, favoriteGroups, locationTimestamps, worldCache,
                        lsTimestamps, lsWorldCache, lsLogs, offlineFriends, isFirstLoad,
                        pendingWorld>>
    ELSE UNCHANGED dataVars

\* case 'friend-update'; without data.user the read of user.status throws before
\* anything is written.  ?? keeps an empty statusDescription, || does not
HandleUpdate(userId, hasUser, user) ==
    IF userId \in DOMAIN friendsData /\ hasUser
    THEN LET existingFriend == friendsData[userId]
             isFavorite == existingFriend.isFavorite
             prevStatus == existingFriend.status
             prevStatusMsg == existingFriend.statusMsg
             newStatus == Or(user.status, existingFriend.status)
             newStatusMsg == IF user.statusDescription = Undefined
                             THEN existingFriend.statusMsg ELSE user.statusDescription
             afterStatus == IF /\ isFavorite
                               /\ prevStatus \notin {Undefined, ""}
                               /\ newStatus \notin {Undefined, ""}
                               /\ prevStatus # newStatus
                            THEN addLogEntry(lsLogs, "Status", userId) ELSE lsLogs
         IN /\ lsLogs' = IF /\ isFavorite
                             /\ prevStatusMsg # newStatusMsg
                             /\ newStatusMsg \notin {Undefined, ""}
                          THEN addLogEntry(afterStatus, "StatusMsg", userId)
                          ELSE afterStatus
            /\ friendsData' = [friendsData EXCEPT
                                  ![userId].name = user.displayName,
                                  ![userId].status = newStatus,
                                  ![userId].statusMsg = newStatusMsg,
                                  ![userId].icon = Or(user.userIcon, existingFriend.icon)]
            /\ instances' = rebuildInstances(friendsOrder, friendsData',
                                             locationTimestamps, now)
            /\ UNCHANGED <<friendsOrder, favoriteIds, favoriteGroups, locationTimestamps,
                           worldCache, lsTimestamps, lsWorldCache, offlineFriends,
                           isFirstLoad, pendingWorld>>
    ELSE UNCHANGED dataVars

handleSSEEvent(eventType, userId, location, hasWorld, hasUser, user) ==
    CASE eventType = "friend-online" ->
              HandleOnline(userId, location, hasWorld, hasUser, user)
      [] eventType = "friend-offline" -> HandleOffline(userId)
      [] eventType = "friend-location" ->
              HandleLocation(userId, location, hasWorld, hasUser, user)
      [] eventType = "friend-update" -> HandleUpdate(userId, hasUser, user)
      [] OTHER -> UNCHANGED dataVars

\* a faulty freshness check: the contact is tracked, wherever it is now
PatchAllowedAnywhere(p) == p.userId \in DOMAIN friendsData

\* the patch fetchWorldInfo(worldId).then(...) applies when the fetch returned info
PatchAllowed(p) ==
    p.userId \in DOMAIN friendsData /\ friendsData[p.userId].location = p.location

\* fetchWorldInfo completes for the event that started it; ok: the fetch returned the venue
WorldResolved(p, ok) ==
    /\ p \in pendingWorld
    /\ pendingWorld' = pendingWorld \ {p}
    /\ lastResolve' = IF ~ok THEN "failed"
                      ELSE IF PatchAllowed(p) THEN "patched" ELSE "skipped"
    /\ IF ok
       THEN /\ worldCache' = MapSet(worldCache, p.worldId,
                                    [name |-> NameOf(p.worldId), cachedAt |-> now])
            /\ lsWorldCache' = worldCache'
            /\ IF PatchAllowed(p)
               THEN /\ friendsData' = [friendsData EXCEPT
                                          ![p.userId].worldName = NameOf(p.worldId)]
                    /\ instances' = rebuildInstances(friendsOrder, friendsData',
                                                     locationTimestamps, now)
               ELSE UNCHANGED <<friendsData, instances>>
       ELSE UNCHANGED <<worldCache, lsWorldCache, friendsData, instances>>
    /\ UNCHANGED <<mounted, now, upLoc, friendsOrder, favoriteIds, favoriteGroups,
                   locationTimestamps, lsTimestamps, lsLogs, offlineFriends, isFirstLoad,
                   isAuthenticated, isAuthenticatedRef, authEffectSeen, conn, fetch,
                   relay, sseQueue, newer, fetchCount>>
    /\ UNCHANGED srvVars

(***************************************************************************)
(* The snapshot: GET /api/friends/active and fetchFriends.                 *)
(***************************************************************************)
UserSeq == <<"usr_A", "usr_B">>

\* the platform's answer to the request at an offset: pages[k] answers offset
\* 100 * (k - 1); behind the last page given the list has ended
PageAt(pages, offset) ==
    IF offset \div 100 + 1 <= Len(pages) THEN pages[offset \div 100 + 1]
    ELSE [kind |-> "empty", ids |-> <<>>]

\* a faulty friends read: a failed page is fatal whatever has been read
RECURSIVE FriendsReadStrict(_, _, _)
FriendsReadStrict(pages, friendOffset, allFriends) ==
    LET page == PageAt(pages, friendOffset)
    IN CASE page.kind = "notok" ->
                [fatal |-> TRUE, status |-> 503, friends |-> <<>>,
                 requests |-> <<friendOffset>>]
         [] page.kind = "throws" ->
                [fatal |-> TRUE, status |-> 500, friends |-> <<>>,
                 requests |-> <<friendOffset>>]
         [] page.kind = "full" ->
                [FriendsReadStrict(pages, friendOffset + 100,
                     [ids |-> allFriends.ids \o page.ids,
                      length |-> allFriends.length + 100])
                 EXCEPT !.requests = <<friendOffset>> \o @]
         [] page.kind = "short" ->
                [fatal |-> FALSE, status |-> 200, friends |-> allFriends.ids \o page.ids,
                 requests |-> <<friendOffset>>]
         [] OTHER ->
                [fatal |-> FALSE, status |-> 200, friends |-> allFriends.ids,
                 requests |-> <<friendOffset>>]

\* the while loop of the friends read, from the request at friendOffset on.  The
\* platform's answer is "full" (100 friends), "short" (1 to 99), "empty" (an empty
\* array or no array), "notok" (a non-OK status, 503 here) or "throws"; ids are the
\* friends of the model on the page.  allFriends carries these ids and
\* allFriends.length; requests are the offsets asked for, in order
RECURSIVE FriendsRead(_, _, _)
FriendsRead(pages, friendOffset, allFriends) ==
    LET page == PageAt(pages, friendOffset)
    IN CASE page.kind = "notok" ->
                IF allFriends.length = 0
                THEN [fatal |-> TRUE, status |-> 503, friends |-> <<>>,
                      requests |-> <<friendOffset>>]
                ELSE [fatal |-> FALSE, status |-> 200, friends |-> allFriends.ids,
                      requests |-> <<friendOffset>>]
         [] page.kind = "throws" ->
                IF allFriends.length = 0
                THEN [fatal |-> TRUE, status |-> 500, friends |-> <<>>,
                      requests |-> <<friendOffset>>]
                ELSE [fatal |-> FALSE, status |-> 200, friends |-> allFriends.ids,
                      requests |-> <<friendOffset>>]
         [] page.kind = "full" ->
                [FriendsRead(pages, friendOffset + 100,
                     [ids |-> allFriends.ids \o page.ids,
                      length |-> allFriends.length + 100])
                 EXCEPT !.requests = <<friendOffset>> \o @]
         [] page.kind = "short" ->
                [fatal |-> FALSE, status |-> 200, friends |-> allFriends.ids \o page.ids,
                 requests |-> <<friendOffset>>]
         [] OTHER ->
                [fatal |-> FALSE, status |-> 200, friends |-> allFriends.ids,
                 requests |-> <<friendOffset>>]

\* a faulty favourites read: it goes on behind a short page
RECURSIVE FavoritesReadOn(_, _, _)
FavoritesReadOn(pages, offset, favoriteIdSet) ==
    LET page == PageAt(pages, offset)
    IN IF page.kind \in {"full", "short"}
       THEN [FavoritesReadOn(pages, offset + 100,
                 favoriteIdSet \cup {page.ids[i] : i \in 1..Len(page.ids)})
             EXCEPT !.requests = <<offset>> \o @]
       ELSE [favoriteIds |-> favoriteIdSet, requests |-> <<offset>>]

\* the while loop of the favourites read, from the request at offset on: the ids
\* collected and the offsets asked for.  A failed request only ends the loop
RECURSIVE FavoritesRead(_, _, _)
FavoritesRead(pages, offset, favoriteIdSet) ==
    LET page == PageAt(pages, offset)
    IN CASE page.kind = "full" ->
                [FavoritesRead(pages, offset + 100,
                     favoriteIdSet \cup {page.ids[i] : i \in 1..Len(page.ids)})
                 EXCEPT !.requests = <<offset>> \o @]
         [] page.kind = "short" ->
                [favoriteIds |-> favoriteIdSet \cup {page.ids[i] : i \in 1..Len(page.ids)},
                 requests |-> <<offset>>]
         [] OTHER ->
                [favoriteIds |-> favoriteIdSet, requests |-> <<offset>>]

\* a faulty cross-reference: every favourite whose lookup succeeds is reported offline
SnapshotGETAllOffline(pages, favoriteIdSet, found) ==
    LET read == FriendsRead(pages, 0, [ids |-> <<>>, length |-> 0])
    IN IF read.fatal
       THEN [status |-> read.status, friends |-> <<>>, offlineFriends |-> {},
             requests |-> read.requests]
       ELSE [status |-> 200,
             friends |-> SelectSeq(read.friends, LAMBDA u : u \in favoriteIdSet),
             offlineFriends |-> favoriteIdSet \cap found,
             requests |-> read.requests]

\* GET /api/friends/active for a request that passes the rate limit and carries the
\* cookie: the ids in friends and in offlineFriends of the response.  favoriteIdSet is
\* what the favourites read obtained (favoriteIds), found the ids whose /users lookup succeeds;
\* usr_B is at "private", everybody else at a venue
SnapshotGET(pages, favoriteIdSet, found) ==
    LET read == FriendsRead(pages, 0, [ids |-> <<>>, length |-> 0])
        friends == read.friends
        locationOf(u) == IF u = "usr_B" THEN "private" ELSE LocFriends
        activeFavoriteFriends == SelectSeq(friends, LAMBDA u : u \in favoriteIdSet)
        activeNonFavoriteFriends ==
            SelectSeq(friends, LAMBDA u : /\ u \notin favoriteIdSet
                                          /\ locationOf(u) \notin {Undefined, "offline",
                                                                   "private"})
        offlineFavoriteIds ==
            {u \in favoriteIdSet : ~\E i \in 1..Len(friends) : friends[i] = u}
    IN IF read.fatal
       THEN [status |-> read.status, friends |-> <<>>, offlineFriends |-> {},
             requests |-> read.requests]
       ELSE [status |-> 200,
             friends |-> activeFavoriteFriends \o activeNonFavoriteFriends,
             offlineFriends |-> offlineFavoriteIds \cap found,
             requests |-> read.requests]

\* one element of simplifiedFriends
SnapContact(u, loc, resolved) ==
    LET info == parseLocation(Tokens(loc)) IN
    [id |-> u,
     name |-> PlatformUser.displayName,
     status |-> PlatformUser.status,
     statusMsg |-> PlatformUser.statusDescription,
     icon |-> Or(PlatformUser.userIcon, ""),
     location |-> loc,
     worldName |-> IF loc = "private" THEN "Private World"
                   ELSE IF StartsWithWrld(loc)
                   THEN (IF resolved THEN NameOf(WorldIdOf(loc)) ELSE loc)
                   ELSE IF loc = "offline" THEN "Offline"
                   ELSE loc,
     isPrivate |-> loc = "private" \/ (StartsWithWrld(loc) /\ IncludesPrivate(loc)),
     isFavorite |-> u \in Favorites,
     favoriteGroup |-> FavoriteTag(u),
     instanceType |-> info.instanceType,
     ownerId |-> info.ownerId,
     groupId |-> info.groupId]

\* activeFavoriteFriends, then activeNonFavoriteFriends
IsActiveFavorite(up, u) == up[u] # "gone" /\ u \in Favorites
IsActiveOther(up, u) ==
    up[u] # "gone" /\ u \notin Favorites /\ up[u] \notin {Undefined, "offline", "private"}

RECURSIVE SelectUsers(_, _, _)
SelectUsers(up, i, favs) ==
    IF i > Len(UserSeq) THEN <<>>
    ELSE LET u == UserSeq[i]
             keep == IF favs THEN IsActiveFavorite(up, u) ELSE IsActiveOther(up, u)
         IN (IF keep THEN <<u>> ELSE <<>>) \o SelectUsers(up, i + 1, favs)

\* data.friends of the response
SnapshotFriends(up, resolved) ==
    LET ids == SelectUsers(up, 1, TRUE) \o SelectUsers(up, 1, FALSE)
    IN [i \in 1..Len(ids) |-> SnapContact(ids[i], up[ids[i]], resolved)]

\* data.offlineFriends of the response (ids)
RECURSIVE SnapshotOffline(_, _)
SnapshotOffline(up, i) ==
    IF i > Len(UserSeq) THEN <<>>
    ELSE (IF UserSeq[i] \in Favorites /\ up[UserSeq[i]] = "gone"
          THEN <<UserSeq[i]>> ELSE <<>>) \o SnapshotOffline(up, i + 1)

\* the timestamp loop of fetchFriends
RECURSIVE InstallStamps(_, _, _)
InstallStamps(friends, i, stamps) ==
    IF i > Len(friends) THEN stamps
    ELSE LET f == friends[i]
             keep == f.id \in DOMAIN stamps /\ stamps[f.id].location = f.location
         IN InstallStamps(friends, i + 1,
                IF keep THEN stamps
                ELSE MapSet(stamps, f.id, [location |-> f.location, joinedAt |-> now]))

\* the venue-cache backfill of fetchFriends
RECURSIVE InstallCache(_, _, _)
InstallCache(friends, i, cache) ==
    IF i > Len(friends) THEN cache
    ELSE LET f == friends[i]
             w == WorldIdOf(f.location)
             write == /\ StartsWithWrld(f.location)
                      /\ f.worldName # Undefined
                      /\ \/ w \notin DOMAIN cache
                         \/ now - cache[w].cachedAt > WORLD_CACHE_TTL
         IN InstallCache(friends, i + 1,
                IF write THEN MapSet(cache, w, [name |-> f.worldName, cachedAt |-> now])
                ELSE cache)

\* allOfflineFavorites, sorted by favourite group (a stable sort)
GroupOrDefault(u) == IF FavoriteTag(u) = Undefined THEN 999 ELSE GroupNum(FavoriteTag(u))

RECURSIVE OfflineInsertAt(_, _, _)
OfflineInsertAt(s, x, i) ==
    IF i = 0 THEN 0
    ELSE IF GroupOrDefault(x) - GroupOrDefault(s[i]) < 0 THEN OfflineInsertAt(s, x, i - 1)
    ELSE i

RECURSIVE sortOffline(_)
sortOffline(ids) ==
    IF Len(ids) < 2 THEN ids
    ELSE LET n == Len(ids)
             s == sortOffline(SubSeq(ids, 1, n - 1))
             k == OfflineInsertAt(s, ids[n], n - 1)
         IN SubSeq(s, 1, k) \o <<ids[n]>> \o SubSeq(s, k + 1, n - 1)

OfflineFavorites(up, friends) ==
    LET webActive == SelectSeq(friends, LAMBDA f : f.isFavorite /\ f.location = "offline")
    IN sortOffline(SnapshotOffline(up, 1) \o [i \in 1..Len(webActive) |-> webActive[i].id])

ContactOf(f) ==
    [name |-> f.name, status |-> f.status, statusMsg |-> f.statusMsg, icon |-> f.icon,
     location |-> f.location, worldName |-> f.worldName, isPrivate |-> f.isPrivate,
     isFavorite |-> f.isFavorite, favoriteGroup |-> f.favoriteGroup,
     instanceType |-> f.instanceType, ownerId |-> f.ownerId, groupId |-> f.groupId]

\* fetchFriends is called: the request leaves
FetchStart(kind) ==
    /\ fetch.pc = "idle"
    /\ fetchCount < MaxFetches
    /\ fetch' = [IdleFetch EXCEPT !.pc = "requested", !.kind = kind]
    /\ fetchCount' = fetchCount + 1
    /\ newer' = {}

\* the refresh button
Refresh ==
    /\ mounted = "yes"
    /\ FetchStart("refresh")
    /\ UNCHANGED <<mounted, now, upLoc, dataVars, isAuthenticated, isAuthenticatedRef,
                   authEffectSeen, conn, relay, sseQueue, lastResolve>>
    /\ UNCHANGED srvVars

\* the endpoint answers: result is "ok", "denied" (a non-OK status) or "threw" (the
\* request failed); an ok answer carries the platform's state at this moment
SnapshotServe(result, resolved) ==
    /\ fetch.pc = "requested"
    /\ fetch' = [fetch EXCEPT !.pc = "served", !.result = result,
                              !.upLoc = IF result = "ok" THEN upLoc ELSE @,
                              !.resolved = result = "ok" /\ resolved]
    /\ sseQueue' = [i \in 1..Len(sseQueue) |-> [sseQueue[i] EXCEPT !.fresh = FALSE]]
    /\ UNCHANGED <<mounted, now, upLoc, dataVars, isAuthenticated, isAuthenticatedRef,
                   authEffectSeen, conn, relay, newer, fetchCount, lastResolve>>
    /\ UNCHANGED srvVars

\* the body of fetchFriends for an OK response
InstallSnapshot ==
    LET friends == SnapshotFriends(fetch.upLoc, fetch.resolved)
        ids == {friends[i].id : i \in 1..Len(friends)}
        byId == [u \in ids |-> ContactOf(CHOOSE f \in {friends[i] : i \in 1..Len(friends)} :
                                            f.id = u)]
    IN /\ favoriteIds' = {u \in ids : byId[u].isFavorite}
       /\ favoriteGroups' = [u \in {v \in ids : byId[v].isFavorite
                                                /\ byId[v].favoriteGroup # Undefined}
                                |-> byId[u].favoriteGroup]
       /\ locationTimestamps' = InstallStamps(friends, 1, locationTimestamps)
       /\ worldCache' = InstallCache(friends, 1, worldCache)
       /\ friendsData' = byId
       /\ friendsOrder' = [i \in 1..Len(friends) |-> friends[i].id]
       /\ lsTimestamps' = locationTimestamps'
       /\ lsWorldCache' = IF worldCache' # worldCache THEN worldCache' ELSE lsWorldCache
       /\ instances' = rebuildInstances(friendsOrder', friendsData', locationTimestamps', now)
       /\ isFirstLoad' = FALSE
       /\ offlineFriends' = OfflineFavorites(fetch.upLoc, friends)
       /\ UNCHANGED <<pendingWorld, lsLogs>>

\* the response reaches fetchFriends; after the first call, Initialize's then() runs.
\* A render React has scheduled runs its effect before a later response arrives.
FetchComplete ==
    /\ fetch.pc = "served"
    /\ mounted = "yes" => authEffectSeen = isAuthenticated
    /\ fetch' = IdleFetch
    /\ newer' = {}
    /\ CASE fetch.result = "ok" ->
              /\ isAuthenticated' = TRUE
              /\ isAuthenticatedRef' = TRUE
              /\ InstallSnapshot
         [] fetch.result = "denied" ->
              /\ isAuthenticated' = FALSE
              /\ isAuthenticatedRef' = FALSE
              /\ instances' = <<>>
              /\ offlineFriends' = <<>>
              /\ UNCHANGED <<friendsOrder, friendsData, favoriteIds, favoriteGroups,
                             locationTimestamps, worldCache, lsTimestamps, lsWorldCache,
                             lsLogs, isFirstLoad, pendingWorld>>
         [] OTHER ->
              /\ isAuthenticatedRef' = FALSE
              /\ instances' = <<>>
              /\ UNCHANGED <<isAuthenticated, friendsOrder, friendsData, favoriteIds,
                             favoriteGroups, locationTimestamps, worldCache, lsTimestamps,
                             lsWorldCache, lsLogs, offlineFriends, isFirstLoad, pendingWorld>>
    /\ conn' = IF fetch.kind = "init" /\ isAuthenticatedRef'
               THEN connectSSE(conn, isAuthenticatedRef')
               ELSE conn
    /\ UNCHANGED <<mounted, now, upLoc, authEffectSeen, relay, sseQueue, fetchCount, lastResolve>>
    /\ UNCHANGED srvVars

(***************************************************************************)
(* The provider's effects, the browser's dispatch of channel messages and  *)
(* timers, and the environment.                                            *)
(***************************************************************************)
\* the venue-cache entries the mount effect loads: those younger than the TTL
LoadWorldCache(saved) ==
    [w \in {x \in DOMAIN saved : now - saved[x].cachedAt < WORLD_CACHE_TTL} |-> saved[w]]

\* a faulty first render: the channel is opened at once, the snapshot not awaited
MountEager ==
    /\ mounted = "no"
    /\ mounted' = "yes"
    /\ locationTimestamps' = lsTimestamps
    /\ worldCache' = LoadWorldCache(lsWorldCache)
    /\ isAuthenticatedRef' = TRUE
    /\ authEffectSeen' = isAuthenticated
    /\ conn' = connectSSE(conn, TRUE)
    /\ FetchStart("init")
    /\ UNCHANGED <<now, upLoc, friendsOrder, friendsData, favoriteIds, favoriteGroups,
                   lsTimestamps, lsWorldCache, lsLogs, instances, offlineFriends, isFirstLoad,
                   isAuthenticated, pendingWorld, relay, sseQueue, lastResolve>>
    /\ UNCHANGED srvVars

\* the effects of the first render, in order: load the caches, sync the auth ref,
\* Initialize (fetchFriends is called)
Mount ==
    /\ mounted = "no"
    /\ mounted' = "yes"
    /\ locationTimestamps' = lsTimestamps
    /\ worldCache' = LoadWorldCache(lsWorldCache)
    /\ isAuthenticatedRef' = isAuthenticated
    /\ authEffectSeen' = isAuthenticated
    /\ conn' = IF ~isAuthenticated /\ conn.eventSourceRef # 0 THEN disconnectSSE(conn) ELSE conn
    /\ FetchStart("init")
    /\ UNCHANGED <<now, upLoc, friendsOrder, friendsData, favoriteIds, favoriteGroups,
                   lsTimestamps, lsWorldCache, lsLogs, instances, offlineFriends, isFirstLoad,
                   isAuthenticated, pendingWorld, relay, sseQueue, lastResolve>>
    /\ UNCHANGED srvVars

\* the cleanup of the Initialize effect
Unmount ==
    /\ mounted = "yes"
    /\ mounted' = "gone"
    /\ conn' = disconnectSSE(conn)
    /\ UNCHANGED <<now, upLoc, dataVars, isAuthenticated, isAuthenticatedRef,
                   authEffectSeen, fetch, relay, sseQueue, newer, fetchCount, lastResolve>>
    /\ UNCHANGED srvVars

\* the effect on [isAuthenticated]
AuthEffect ==
    /\ mounted = "yes"
    /\ authEffectSeen # isAuthenticated
    /\ authEffectSeen' = isAuthenticated
    /\ isAuthenticatedRef' = isAuthenticated
    /\ conn' = IF ~isAuthenticated /\ conn.eventSourceRef # 0 THEN disconnectSSE(conn) ELSE conn
    /\ UNCHANGED <<mounted, now, upLoc, dataVars, isAuthenticated, fetch, relay,
                   sseQueue, newer, fetchCount, lastResolve>>
    /\ UNCHANGED srvVars

Deliverable ==
    /\ relay.phase = "running"
    /\ conn.readyState[relay.es] = "open"
    /\ sseQueue # <<>>

\* the listeners of 'connected' and 'disconnected'; ping, friend-add and
\* friend-delete have no listener
DeliverControl ==
    /\ Deliverable
    /\ Head(sseQueue).type \in {"connected", "disconnected", "ping", "friend-add",
                                "friend-delete"}
    /\ sseQueue' = Tail(sseQueue)
    /\ conn' = IF Head(sseQueue).type \in {"connected", "disconnected"}
               THEN [conn EXCEPT !.wsConnectionState = Head(sseQueue).type]
               ELSE conn
    /\ UNCHANGED <<mounted, now, upLoc, dataVars, isAuthenticated, isAuthenticatedRef,
                   authEffectSeen, fetch, relay, newer, fetchCount, lastResolve>>
    /\ UNCHANGED srvVars

\* a message named error is an event of type error at the source
DeliverError ==
    /\ Deliverable
    /\ Head(sseQueue).type = "error"
    /\ sseQueue' = Tail(sseQueue)
    /\ conn' = DispatchError(conn, isAuthenticatedRef, relay.es)
    /\ UNCHANGED <<mounted, now, upLoc, dataVars, isAuthenticated, isAuthenticatedRef,
                   authEffectSeen, fetch, relay, newer, fetchCount, lastResolve>>
    /\ UNCHANGED srvVars

FriendEvents ==
    {"friend-online", "friend-offline", "friend-location", "friend-update", "friend-active"}

\* the events that say where a contact is
PresenceEvents == {"friend-online", "friend-offline", "friend-location"}

\* the listeners of the friend events: friend-active is handled as friend-online; a
\* payload JSON.parse rejects is caught and dropped
DeliverFriendEvent ==
    /\ Deliverable
    /\ Head(sseQueue).type \in FriendEvents
    /\ sseQueue' = Tail(sseQueue)
    /\ LET m == Head(sseQueue)
           normalizedType == IF m.type = "friend-active" THEN "friend-online" ELSE m.type
       IN /\ IF m.parses
             THEN handleSSEEvent(normalizedType, m.userId, m.location, m.hasWorld,
                                 m.hasUser, m.user)
             ELSE UNCHANGED dataVars
          /\ newer' = IF m.fresh /\ fetch.pc = "served" /\ normalizedType \in PresenceEvents
                       THEN newer \cup {m.userId} ELSE newer
    /\ UNCHANGED <<mounted, now, upLoc, isAuthenticated, isAuthenticatedRef,
                   authEffectSeen, conn, fetch, relay, fetchCount, lastResolve>>
    /\ UNCHANGED srvVars

\* the browser reports a failure of source es: the request was refused or the
\* transport dropped
SourceError(es) ==
    /\ es \in OpenSources(conn)
    /\ Len(conn.readyState) < MaxConnects
    /\ conn' = DispatchError(conn, isAuthenticatedRef, es)
    /\ UNCHANGED <<mounted, now, upLoc, dataVars, isAuthenticated, isAuthenticatedRef,
                   authEffectSeen, fetch, relay, sseQueue, newer, fetchCount, lastResolve>>
    /\ UNCHANGED srvVars

\* a reconnect timer fires
TimerFire(t) ==
    /\ t \in conn.timers
    /\ isAuthenticatedRef => Len(conn.readyState) < MaxConnects
    /\ conn' = ReconnectCallback([conn EXCEPT !.timers = @ \ {t}], isAuthenticatedRef)
    /\ UNCHANGED <<mounted, now, upLoc, dataVars, isAuthenticated, isAuthenticatedRef,
                   authEffectSeen, fetch, relay, sseQueue, newer, fetchCount, lastResolve>>
    /\ UNCHANGED srvVars

\* the frame the platform sends when user u goes from location old to location loc
FrameType(old, loc) ==
    IF loc = "gone" THEN "friend-offline"
    ELSE IF loc = "offline" THEN "friend-active"
    ELSE IF old \in {"gone", "offline"} THEN "friend-online"
    ELSE "friend-location"

\* a user moves; the platform sends the frame on the relay's connection, when it is up
UpstreamMoveN(u, loc, hasWorld, maxLogged) ==
    /\ upLoc[u] # loc
    /\ LogCount(lsLogs) < maxLogged
    /\ upLoc' = [upLoc EXCEPT ![u] = loc]
    /\ IF relay.ws \in {"open", "closing"}
       THEN /\ Room
            /\ WsOnMessage(FrameType(upLoc[u], loc), u,
                           IF loc \in {"gone", "offline"} THEN Undefined ELSE loc,
                           hasWorld)
       ELSE UNCHANGED sseQueue
    /\ UNCHANGED <<mounted, now, dataVars, isAuthenticated, isAuthenticatedRef,
                   authEffectSeen, conn, fetch, relay, newer, fetchCount, lastResolve>>
    /\ UNCHANGED srvVars

\* the frames the platform, or whatever answers on the upstream socket, may send
Frames ==
    {EventFrame("friend-online", "usr_A", LocFriends, TRUE),
     EventFrame("friend-location", "usr_A", LocGroup, TRUE),
     EventFrame("friend-offline", "usr_A", Undefined, FALSE),
     EventFrame("friend-add", "usr_B", Undefined, FALSE),
     EventFrame("notification", "usr_B", Undefined, FALSE),
     Frame(TRUE, "friend-active", "object", FALSE,
           Payload("usr_B", Undefined, FALSE, TRUE)),
     Frame(FALSE, Undefined, "absent", FALSE, NoPayload),
     Frame(TRUE, "friend-online", "string", FALSE, NoPayload),
     Frame(TRUE, "notification", "string", FALSE, NoPayload),
     Frame(TRUE, "friend-online", "absent", FALSE, NoPayload),
     Frame(TRUE, "friend-location", "string", TRUE,
           Payload("usr_A", LocGroup, TRUE, FALSE)),
     Frame(TRUE, "friend-online", "string", TRUE,
           Payload(Undefined, LocGroup, TRUE, TRUE))}

\* a frame arrives on the relay's upstream socket
UpstreamFrame(f) ==
    /\ relay.ws \in {"open", "closing"}
    /\ relay.isConnectionClosed \/ Len(sseQueue) < MaxBacklog
    /\ LogCount(lsLogs) < MaxLogged
    /\ sseQueue' = OnWsMessage(relay, sseQueue, f)
    /\ UNCHANGED <<mounted, now, upLoc, dataVars, isAuthenticated, isAuthenticatedRef,
                   authEffectSeen, conn, fetch, relay, newer, fetchCount, lastResolve>>
    /\ UNCHANGED srvVars

UpstreamMove(u, loc, hasWorld) == UpstreamMoveN(u, loc, hasWorld, MaxLogged)

\* time passes: Date.now() grows by ClockStep
Tick ==
    /\ now < (1 + MaxTicks) * ClockStep
    /\ now' = now + ClockStep
    /\ UNCHANGED <<mounted, upLoc, dataVars, isAuthenticated, isAuthenticatedRef,
                   authEffectSeen, conn, fetch, relay, sseQueue, newer, fetchCount,
                   lastResolve>>
    /\ UNCHANGED srvVars

\* clearLogs of the logs page
ClearLogs ==
    /\ lsLogs # <<>>
    /\ lsLogs' = <<>>
    /\ UNCHANGED <<mounted, now, upLoc, friendsOrder, friendsData, favoriteIds,
                   favoriteGroups, locationTimestamps, worldCache, lsTimestamps,
                   lsWorldCache, instances, offlineFriends, isFirstLoad, isAuthenticated,
                   isAuthenticatedRef, authEffectSeen, conn, pendingWorld, fetch, relay,
                   sseQueue, newer, fetchCount, lastResolve>>
    /\ UNCHANGED srvVars

\* a user changes status, status message, name or icon; the platform sends
\* friend-update with the user object on the relay's connection
UpstreamUpdateWith(u, user) ==
    /\ relay.ws \in {"open", "closing"}
    /\ Room
    /\ LogCount(lsLogs) < MaxLogged
    /\ sseQueue' = OnWsMessage(relay, sseQueue,
                       Frame(TRUE, "friend-update", "string", TRUE,
                             [Payload(u, Undefined, FALSE, TRUE) EXCEPT !.user = user]))
    /\ UNCHANGED <<mounted, now, upLoc, dataVars, isAuthenticated, isAuthenticatedRef,
                   authEffectSeen, conn, fetch, relay, newer, fetchCount, lastResolve>>
    /\ UNCHANGED srvVars

UpstreamUpdate(u) == UpstreamUpdateWith(u, PlatformUser)

(***************************************************************************)
(* Specifications.  Spec follows the data: contacts move between the       *)
(* locations while snapshots and venue resolutions are in flight.          *)
(* SpecConn follows the channel: failures, logout, teardown, reconnects.   *)
(***************************************************************************)
Next ==
    \/ Mount
    \/ Refresh
    \/ SnapshotServe("ok", TRUE)
    \/ FetchComplete
    \/ AuthEffect
    \/ \E es \in 1..MaxConnects : RelayAccept(es)
    \/ WsOnOpen
    \/ \E loc \in {"gone", LocFriends, LocGroup} :
          UpstreamMove("usr_A", loc, loc = LocFriends)
    \/ \E loc \in {"gone", LocFriends} : UpstreamMove("usr_B", loc, TRUE)
    \/ DeliverControl
    \/ DeliverFriendEvent
    \/ \E p \in pendingWorld, ok \in BOOLEAN : WorldResolved(p, ok)
    \/ ClearLogs

Spec == Init /\ [][Next]_vars

NextConn ==
    \/ Mount
    \/ Unmount
    \/ Refresh
    \/ \E result \in {"ok", "denied", "threw"} : SnapshotServe(result, TRUE)
    \/ FetchComplete
    \/ AuthEffect
    \/ \E es \in 1..MaxConnects : RelayAccept(es)
    \/ RelayCancel
    \/ WsOnOpen
    \/ UpstreamFail
    \/ AbortError
    \/ UpstreamClose
    \/ WsClosed
    \/ PingTick
    \/ UpstreamUpdate("usr_A")
    \/ DeliverControl
    \/ DeliverError
    \/ DeliverFriendEvent
    \/ \E es \in 1..MaxConnects : SourceError(es)
    \/ \E t \in conn.timers : TimerFire(t)

SpecConn == Init /\ [][NextConn]_vars

\* SpecConn with the scheduling the runtimes give: a message on an open channel is
\* dispatched, a timer or an interval that is set fires, a socket event that is due is
\* emitted, a response and a scheduled effect arrive.  What the platform, the network
\* and the user do (failures, closes, updates, refresh, unmount) is left free.
FairConn ==
    /\ SpecConn
    /\ WF_vars(DeliverControl)
    /\ WF_vars(DeliverError)
    /\ WF_vars(DeliverFriendEvent)
    /\ WF_vars(\E t \in conn.timers : TimerFire(t))
    /\ WF_vars(PingTick)
    /\ WF_vars(\E es \in 1..MaxConnects : RelayAccept(es))
    /\ WF_vars(RelayCancel)
    /\ WF_vars(WsOnOpen)
    /\ WF_vars(AbortError)
    /\ WF_vars(WsClosed)
    /\ WF_vars(\E result \in {"ok", "denied", "threw"} : SnapshotServe(result, TRUE))
    /\ WF_vars(FetchComplete)
    /\ WF_vars(AuthEffect)

\* SpecRelay follows the stream endpoint: requests of the provider's browser with and
\* without the auth cookie, requests of another session, the rate limiter they share,
\* upstream failures, and the provider's retries.
NextRelay ==
    \/ Mount
    \/ SnapshotServe("ok", TRUE)
    \/ FetchComplete
    \/ AuthEffect
    \/ \E es \in 1..MaxConnects, hasCookie \in BOOLEAN : RelayGET(es, hasCookie)
    \/ \E forwarded \in OtherForwarded : OtherGET(forwarded, TRUE)
    \/ OtherFail
    \/ OtherCancel
    \/ RelayCancel
    \/ WsOnOpen
    \/ UpstreamFail
    \/ UpstreamClose
    \/ WsClosed
    \/ DeliverControl
    \/ DeliverError
    \/ \E t \in conn.timers : TimerFire(t)

SpecRelay == Init /\ [][NextRelay]_vars

\* SpecFrames follows the frames: whatever arrives on the upstream socket, through the
\* relay's handler and the browser's listeners.
NextFrames ==
    \/ Mount
    \/ SnapshotServe("ok", TRUE)
    \/ FetchComplete
    \/ AuthEffect
    \/ \E es \in 1..MaxConnects : RelayAccept(es)
    \/ WsOnOpen
    \/ UpstreamMove("usr_A", LocFriends, TRUE)
    \/ \E f \in Frames : UpstreamFrame(f)
    \/ DeliverControl
    \/ DeliverFriendEvent
    \/ ClearLogs

SpecFrames == Init /\ [][NextFrames]_vars

\* SpecCache follows the venue cache while time passes: entries written by a venue
\* fetch or by the snapshot backfill, read by later events and refreshes.
NextCache ==
    \/ Mount
    \/ Tick
    \/ Refresh
    \/ SnapshotServe("ok", TRUE)
    \/ FetchComplete
    \/ AuthEffect
    \/ \E es \in 1..MaxConnects : RelayAccept(es)
    \/ WsOnOpen
    \/ \E loc \in {"gone", LocGroup} : UpstreamMove("usr_A", loc, FALSE)
    \/ DeliverControl
    \/ DeliverFriendEvent
    \/ \E p \in pendingWorld : WorldResolved(p, TRUE)
    \/ ClearLogs

SpecCache == Init /\ [][NextCache]_vars

\* SpecLog follows the activity log: a favourite goes back and forth between two
\* locations until the log has been written MaxWrites times.
NextLog ==
    \/ Mount
    \/ SnapshotServe("ok", TRUE)
    \/ FetchComplete
    \/ AuthEffect
    \/ \E es \in 1..MaxConnects : RelayAccept(es)
    \/ WsOnOpen
    \/ \E loc \in {LocFriends, LocGroup} : UpstreamMoveN("usr_A", loc, TRUE, MaxWrites)
    \/ DeliverControl
    \/ DeliverFriendEvent
    \/ ClearLogs

SpecLog == Init /\ [][NextLog]_vars

\* SpecSentinel: the favourite also goes to a private place, travels, and is active
\* on the web site without being in a world ("offline")
NextSentinel ==
    \/ Mount
    \/ Refresh
    \/ SnapshotServe("ok", TRUE)
    \/ FetchComplete
    \/ AuthEffect
    \/ \E es \in 1..MaxConnects : RelayAccept(es)
    \/ WsOnOpen
    \/ \E loc \in {"gone", "offline", LocFriends, "private", "traveling"} :
          UpstreamMove("usr_A", loc, loc = LocFriends)
    \/ DeliverControl
    \/ DeliverFriendEvent
    \/ ClearLogs

SpecSentinel == Init /\ [][NextSentinel]_vars

\* SpecUpdate follows friend-update: a favourite and another contact come online and
\* change status, status message, name and icon.
NextUpdate ==
    \/ Mount
    \/ SnapshotServe("ok", TRUE)
    \/ FetchComplete
    \/ AuthEffect
    \/ \E es \in 1..MaxConnects : RelayAccept(es)
    \/ WsOnOpen
    \/ \E u \in Users : UpstreamMove(u, LocFriends, TRUE)
    \/ \E user \in UpdateUsers : UpstreamUpdateWith("usr_A", user)
    \/ UpstreamUpdateWith("usr_B", [PlatformUser EXCEPT !.status = "busy"])
    \/ DeliverControl
    \/ DeliverFriendEvent
    \/ ClearLogs

SpecUpdate == Init /\ [][NextUpdate]_vars

(***************************************************************************)
(* The functions of the program called on their own, on inputs drawn from  *)
(* bounded sets: the two location parsers and rebuildInstances.            *)
(***************************************************************************)
MaxSegments == 3
MaxPages == 2
MaxHalfWindows == 3

\* the location strings given to the parsers, as tokens: the sentinels and the empty
\* string, and a venue id, with and without an instance part, followed by up to
\* MaxSegments suffixes, whole or cut short
LocationInputs ==
    LET Segments == {<<"~group(", "grp_9", ")">>,
                     <<"~groupAccessType(", "public", ")">>,
                     <<"~groupAccessType(", "members", ")">>,
                     <<"~groupAccessType(", "plus", ")">>,
                     <<"~private(", "usr_A", ")">>,
                     <<"~canRequestInvite">>,
                     <<"~friends(", "usr_A", ")">>,
                     <<"~hidden(", "usr_A", ")">>,
                     <<"~region(", "jp", ")">>,
                     <<"~private(", "usr_A">>,
                     <<"~group(">>,
                     <<")">>}
        RECURSIVE Suffixes(_)
        Suffixes(n) == IF n = 0 THEN {<<>>}
                       ELSE LET s == Suffixes(n - 1)
                            IN s \cup {x \o g : x \in s, g \in Segments}
    IN {<<>>, <<"offline">>, <<"private">>, <<"traveling">>,
        <<"wrld_1", ":", "inst1", ":", "~friends(", "usr_A", ")">>}
       \cup {<<"wrld_1">> \o s : s \in Suffixes(MaxSegments)}
       \cup {<<"wrld_1", ":", "inst1">> \o s : s \in Suffixes(MaxSegments)}

\* a favourite as the online and location handlers store it: the venue name is known
\* for the two venues whose events carry it
EventContact(location, group) ==
    [name |-> PlatformUser.displayName,
     status |-> PlatformUser.status,
     statusMsg |-> PlatformUser.statusDescription,
     icon |-> PlatformUser.userIcon,
     location |-> location,
     worldName |-> IF location = "private" THEN "Private World"
                   ELSE IF location \in WorldLocations THEN NameOf(WorldIdOf(location))
                   ELSE Undefined,
     isPrivate |-> location = "private",
     isFavorite |-> TRUE,
     favoriteGroup |-> group,
     instanceType |-> Undefined, ownerId |-> Undefined, groupId |-> Undefined]

\* what a contact map given to rebuildInstances holds for one user: nothing, or the
\* user at a place since a time, in a favourite group
RebuildChoices ==
    {[present |-> FALSE, location |-> Undefined, joinedAt |-> 0, group |-> Undefined]}
    \cup [present : {TRUE},
          location : {LocFriends, LocGroup, LocInvite, "private", "traveling"},
          joinedAt : {ClockStep, 2 * ClockStep},
          group : {"group_0", "group_1"}]

\* the state before the call: the parsers are given a location; the snapshot endpoint
\* is given the platform's answers to its page requests, the favourites and the
\* lookups that succeed; rebuildInstances is given a contact map and a timestamp map
\* as snapshot and events have left them
InitPure ==
    /\ mounted = "no"
    /\ upLoc = [u \in Users |-> "gone"]
    /\ favoriteGroups = EmptyMap
    /\ worldCache = EmptyMap
    /\ lsWorldCache = EmptyMap
    /\ lsLogs = <<>>
    /\ instances = <<>>
    /\ offlineFriends = <<>>
    /\ isFirstLoad = TRUE
    /\ isAuthenticated = FALSE
    /\ isAuthenticatedRef = FALSE
    /\ authEffectSeen = FALSE
    /\ conn = InitConn
    /\ pendingWorld = {}
    /\ fetch = IdleFetch
    /\ relay = IdleRelay
    /\ sseQueue = <<>>
    /\ rateLimitStore = EmptyMap
    /\ soloStore = EmptyMap
    /\ other = [r |-> IdleRelay, q |-> <<>>]
    /\ streamStatus = 0
    /\ newer = {}
    /\ fetchCount = 0
    /\ lastResolve = "none"
    /\ \/ /\ call \in {[NoCall EXCEPT !.fn = "parse", !.location = l] : l \in LocationInputs}
          /\ now = ClockStep
          /\ friendsOrder = <<>>
          /\ friendsData = EmptyMap
          /\ favoriteIds = {}
          /\ locationTimestamps = EmptyMap
          /\ lsTimestamps = EmptyMap
       \/ /\ \E n \in 0..MaxPages :
                \E pages \in [1..n -> [kind : {"full", "short"},
                                       ids : {<<>>, <<"usr_A">>, <<"usr_B">>,
                                              <<"usr_A", "usr_B">>}]
                                      \cup [kind : {"empty", "notok", "throws"},
                                            ids : {<<>>}]] :
                   \E favs \in SUBSET Users, found \in SUBSET Users :
                      call = [NoCall EXCEPT !.fn = "GET", !.pages = pages,
                                            !.favoriteIds = favs, !.found = found]
          /\ now = ClockStep
          /\ friendsOrder = <<>>
          /\ friendsData = EmptyMap
          /\ favoriteIds = {}
          /\ locationTimestamps = EmptyMap
          /\ lsTimestamps = EmptyMap
       \/ /\ \E n \in 0..MaxPages :
                \E pages \in [1..n -> [kind : {"full", "short"},
                                       ids : {<<>>, <<"usr_A">>, <<"usr_B">>,
                                              <<"usr_A", "usr_B">>}]
                                      \cup [kind : {"empty", "notok", "throws"},
                                            ids : {<<>>}]] :
                   call = [NoCall EXCEPT !.fn = "favorites", !.pages = pages]
          /\ now = ClockStep
          /\ friendsOrder = <<>>
          /\ friendsData = EmptyMap
          /\ favoriteIds = {}
          /\ locationTimestamps = EmptyMap
          /\ lsTimestamps = EmptyMap
       \/ /\ call = [NoCall EXCEPT !.fn = "rebuildInstances"]
          /\ now = 3 * ClockStep
          /\ \E pick \in [{"usr_A", "usr_B", "usr_C"} -> RebuildChoices] :
                LET ids == {u \in DOMAIN pick : pick[u].present} IN
                /\ friendsOrder = SelectSeq(<<"usr_A", "usr_B", "usr_C">>,
                                            LAMBDA u : u \in ids)
                /\ friendsData = [u \in ids |-> EventContact(pick[u].location,
                                                             pick[u].group)]
                /\ favoriteIds = ids
                /\ locationTimestamps = [u \in ids |-> [location |-> pick[u].location,
                                                        joinedAt |-> pick[u].joinedAt]]
                /\ lsTimestamps = locationTimestamps

\* parseInstanceInfo(location) is called
CallParseInstanceInfo ==
    /\ call.fn = "parse"
    /\ "parseInstanceInfo" \notin call.done
    /\ call' = [call EXCEPT !.done = @ \cup {"parseInstanceInfo"},
                            !.info = parseInstanceInfo(call.location)]
    /\ UNCHANGED <<mounted, now, upLoc, dataVars, isAuthenticated, isAuthenticatedRef,
                   authEffectSeen, conn, fetch, relay, sseQueue, rateLimitStore, soloStore,
                   other, streamStatus, newer, fetchCount, lastResolve>>

\* parseLocation(location) is called
CallParseLocation ==
    /\ call.fn = "parse"
    /\ "parseLocation" \notin call.done
    /\ call' = [call EXCEPT !.done = @ \cup {"parseLocation"},
                            !.parsed = parseLocation(call.location)]
    /\ UNCHANGED <<mounted, now, upLoc, dataVars, isAuthenticated, isAuthenticatedRef,
                   authEffectSeen, conn, fetch, relay, sseQueue, rateLimitStore, soloStore,
                   other, streamStatus, newer, fetchCount, lastResolve>>

\* GET /api/friends/active is requested
CallSnapshotGET ==
    /\ call.fn = "GET"
    /\ call.done = {}
    /\ call' = [call EXCEPT !.done = {"GET"},
                            !.resp = SnapshotGET(call.pages, call.favoriteIds, call.found)]
    /\ UNCHANGED <<mounted, now, upLoc, dataVars, isAuthenticated, isAuthenticatedRef,
                   authEffectSeen, conn, fetch, relay, sseQueue, rateLimitStore, soloStore,
                   other, streamStatus, newer, fetchCount, lastResolve>>

\* the favourites read of GET /api/friends/active runs
CallFavoritesRead ==
    /\ call.fn = "favorites"
    /\ call.done = {}
    /\ call' = [call EXCEPT !.done = {"favorites"},
                            !.favorites = FavoritesRead(call.pages, 0, {})]
    /\ UNCHANGED <<mounted, now, upLoc, dataVars, isAuthenticated, isAuthenticatedRef,
                   authEffectSeen, conn, fetch, relay, sseQueue, rateLimitStore, soloStore,
                   other, streamStatus, newer, fetchCount, lastResolve>>

\* rebuildInstances() is called
CallRebuild ==
    /\ call.fn = "rebuildInstances"
    /\ call.done = {}
    /\ call' = [call EXCEPT !.done = {"rebuildInstances"}]
    /\ instances' = rebuildInstances(friendsOrder, friendsData, locationTimestamps, now)
    /\ UNCHANGED <<mounted, now, upLoc, friendsOrder, friendsData, favoriteIds,
                   favoriteGroups, locationTimestamps, worldCache, lsTimestamps,
                   lsWorldCache, lsLogs, offlineFriends, isFirstLoad, pendingWorld,
                   isAuthenticated, isAuthenticatedRef, authEffectSeen, conn, fetch, relay,
                   sseQueue, rateLimitStore, soloStore, other, streamStatus, newer,
                   fetchCount, lastResolve>>

\* SpecLimit follows the rate limiter: requests of two clients to the stream and of
\* one of them to the login route, half a stream window passing between them at times.
\* a request to a route of the type arrives from the client, delay after the last
\* step.  call.admitted counts, key by key, the requests admitted since the last one
\* that found no unexpired entry; call.rejected holds the keys whose last request was
\* rejected
LimitRequestAt(type, clientId, delay) ==
    \E cleanup \in BOOLEAN :
        LET at == now + delay
            rc == checkRateLimitOf(rateLimitStore, type, clientId, at, cleanup)
            key == type \o ":" \o clientId
            unexpired == key \in DOMAIN rateLimitStore
                         /\ ~(at > rateLimitStore[key].resetTime)
            before == IF key \in DOMAIN call.admitted THEN call.admitted[key] ELSE 0
        IN /\ before <= RATE_LIMIT_CONFIG[type].maxRequests
           /\ now' = at
           /\ rateLimitStore' = rc.store
           /\ call' = [call EXCEPT !.fn = "checkRateLimit", !.key = key,
                                   !.limited = rc.limited,
                                   !.retry = delay # 0,
                                   !.rejected = IF rc.limited THEN @ \cup {key}
                                                ELSE @ \ {key},
                                   !.admitted = IF rc.limited THEN @
                                                ELSE MapSet(@, key, IF unexpired
                                                                    THEN before + 1
                                                                    ELSE 1)]
           /\ UNCHANGED <<mounted, upLoc, dataVars, isAuthenticated,
                          isAuthenticatedRef, authEffectSeen, conn, fetch, relay, sseQueue,
                          soloStore, other, streamStatus, newer, fetchCount, lastResolve>>

LimitRequest(type, clientId) == LimitRequestAt(type, clientId, 0)

\* the last time at which a retry is followed: a window that a request up to
\* MaxHalfWindows half windows after the start found open has ended by then
RetryHorizon ==
    ClockStep + MaxHalfWindows * (STREAM_WINDOW \div 2) + STREAM_WINDOW + RECONNECT_DELAY

\* a client whose last stream request was rejected asks again when the provider's
\* reconnect timer has run
RetryAfterBackoff(clientId) ==
    /\ ("stream:" \o clientId) \in call.rejected
    /\ now < RetryHorizon
    /\ LimitRequestAt("stream", clientId, RECONNECT_DELAY)

\* half a stream window passes
HalfWindow ==
    /\ now < ClockStep + MaxHalfWindows * (STREAM_WINDOW \div 2)
    /\ now' = now + STREAM_WINDOW \div 2
    /\ UNCHANGED <<mounted, upLoc, dataVars, isAuthenticated, isAuthenticatedRef,
                   authEffectSeen, conn, fetch, relay, sseQueue, newer, fetchCount,
                   lastResolve>>
    /\ UNCHANGED srvVars

NextLimit ==
    \/ \E clientId \in OtherForwarded : LimitRequest("stream", clientId)
    \/ LimitRequest("login", ProviderForwarded)
    \/ HalfWindow

SpecLimit == Init /\ [][NextLimit]_vars

\* SpecRetry follows the provider's client among the requests of all clients: once
\* rejected it asks again every RECONNECT_DELAY
NextRetry ==
    \/ \E clientId \in OtherForwarded : LimitRequest("stream", clientId)
    \/ RetryAfterBackoff(ProviderForwarded)
    \/ HalfWindow

SpecRetry == Init /\ [][NextRetry]_vars

\* the rejected provider keeps asking: every error sets the timer that connects again
FairRetry ==
    /\ SpecRetry
    /\ WF_vars(RetryAfterBackoff(ProviderForwarded))

NextPure ==
    \/ CallParseInstanceInfo
    \/ CallParseLocation
    \/ CallSnapshotGET
    \/ CallFavoritesRead
    \/ CallRebuild

SpecPure == InitPure /\ [][NextPure]_vars

(***************************************************************************)
(* Properties.                                                             *)
(***************************************************************************)
\* the instances of the list that hold contact u, among its friends or its otherFriends
InstancesWith(list, u) ==
    {i \in 1..Len(list) :
        \/ \E k \in 1..Len(list[i].friends) : list[i].friends[k].id = u
        \/ \E k \in 1..Len(list[i].otherFriends) : list[i].otherFriends[k].id = u}

\* a contact flagged favourite is at location loc in the map
FavoriteAt(data, loc) ==
    \E v \in DOMAIN data : data[v].isFavorite /\ data[v].location = loc

\* a contact the map holds as an online or location event wrote it (the snapshot
\* always fills instanceType)
FromEvent(u) == u \in DOMAIN friendsData /\ friendsData[u].instanceType = Undefined

\* C1, as stated: after each friend-online or friend-location event handled by
\* handleSSEEvent the contact is in exactly one instance of the rebuilt list; after
\* friend-offline it is in no instance and not in the contact map.
C1_ExactlyOneInstance ==
    [][DeliverFriendEvent =>
        LET m == Head(sseQueue) IN
        /\ m.type \in {"friend-online", "friend-location"} =>
              Cardinality(InstancesWith(instances', m.userId)) = 1
        /\ m.type = "friend-offline" =>
              /\ InstancesWith(instances', m.userId) = {}
              /\ m.userId \notin DOMAIN friendsData']_vars

\* C1, amended: after each friend-online or friend-location event the contact is in the
\* map at the event's location and in at most one instance, the one of that location;
\* it is in exactly one if and only if a contact flagged favourite (itself or another)
\* is at that location.  After friend-offline it is in no instance and not in the map.
C1_OneInstanceIfFavoriteThere ==
    [][DeliverFriendEvent =>
        LET m == Head(sseQueue)
            held == InstancesWith(instances', m.userId)
        IN /\ m.type \in {"friend-online", "friend-location"} =>
                 /\ m.userId \in DOMAIN friendsData'
                 /\ friendsData'[m.userId].location = m.location
                 /\ Cardinality(held) <= 1
                 /\ \A i \in held : instances'[i].id = m.location
                 /\ held # {} <=> FavoriteAt(friendsData', m.location)
           /\ m.type = "friend-offline" =>
                 /\ held = {}
                 /\ m.userId \notin DOMAIN friendsData']_vars

\* both contacts were written by events: the favourite is in one instance, the other
\* contact, alone at its location, in none
C1_Witness ==
    /\ FromEvent("usr_A") /\ FromEvent("usr_B")
    /\ friendsData["usr_A"].location # friendsData["usr_B"].location
    /\ Cardinality(InstancesWith(instances, "usr_A")) = 1
    /\ InstancesWith(instances, "usr_B") = {}

\* C2: in every reachable state the output of rebuildInstances has an instance for a
\* location if and only if a contact flagged favourite in the contact map is at that
\* location ("offline" is no location: a contact there is in no venue).
C2_InstanceIffFavorite ==
    LET out == rebuildInstances(friendsOrder, friendsData, locationTimestamps, now) IN
    \A loc \in Locations :
        (\E i \in 1..Len(out) : out[i].id = loc)
            <=> (loc # "offline" /\ FavoriteAt(friendsData, loc))

\* the map holds a favourite at one location and another contact alone at a second
\* one: the output has the first location only
C2_Witness ==
    /\ \E u, v \in DOMAIN friendsData :
          /\ friendsData[u].isFavorite /\ ~friendsData[v].isFavorite
          /\ friendsData[u].location # friendsData[v].location
    /\ Len(rebuildInstances(friendsOrder, friendsData, locationTimestamps, now)) = 1

\* C3, as stated: when fetchFriends installs its response, a contact for which a push
\* event newer than that response was applied while the request was in flight keeps
\* what the event said: it is in the map or not as before, at the same location.
C3_RefreshKeepsNewerEvents ==
    [][(fetch.pc = "served" /\ fetch'.pc = "idle") =>
        \A u \in newer :
           /\ u \in DOMAIN friendsData' <=> u \in DOMAIN friendsData
           /\ u \in DOMAIN friendsData =>
                 friendsData'[u].location = friendsData[u].location]_vars

\* C4: a venue resolution that completes leaves the key set of the contact map and
\* every contact's location as they are; it writes the venue's name on the contact of
\* its event if the fetch returned the venue and that contact is in the map at the
\* event's location, and changes no contact otherwise.
C4_PatchOnlyFreshLocation ==
    [][\A p \in pendingWorld, ok \in BOOLEAN :
          WorldResolved(p, ok) =>
             /\ DOMAIN friendsData' = DOMAIN friendsData
             /\ \A u \in DOMAIN friendsData :
                   friendsData'[u].location = friendsData[u].location
             /\ IF /\ ok
                   /\ p.userId \in DOMAIN friendsData
                   /\ friendsData[p.userId].location = p.location
                THEN friendsData' = [friendsData EXCEPT
                                       ![p.userId].worldName = NameOf(p.worldId)]
                ELSE friendsData' = friendsData]_vars

\* a resolution returned the venue and was dropped: its contact had moved, and keeps
\* the name of the place it is at
C4_Witness ==
    /\ lastResolve = "skipped"
    /\ FromEvent("usr_A")
    /\ friendsData["usr_A"].location = LocFriends
    /\ friendsData["usr_A"].worldName = NameOf("wrld_1")

\* C5: while the logged-out latch is set (isAuthenticatedRef is false) no EventSource
\* is constructed and no reconnect is scheduled: a step that constructs one ends with
\* the latch unset, and a step that ends with the latch set adds no timer; so an error
\* callback under the latch schedules nothing and a timer firing under it connects
\* nothing.
C5_NoConnectWhileLatched ==
    [][/\ Len(conn'.readyState) > Len(conn.readyState) => isAuthenticatedRef'
       /\ ~isAuthenticatedRef' => conn'.timers \subseteq conn.timers]_vars

\* the latch is set, the reconnect timer that was pending has fired, and the source the
\* error closed is still the latest one
C5_Witness ==
    /\ ~isAuthenticatedRef
    /\ conn.timers = {}
    /\ conn.reconnectTimeoutRef # 0
    /\ conn.reconnectTimeoutRef = conn.timerCount
    /\ conn.eventSourceRef = Len(conn.readyState)
    /\ conn.eventSourceRef # 0
    /\ conn.readyState[conn.eventSourceRef] = "closed"

\* an event of type error reaches the provider's source
ChannelError == DeliverError \/ \E es \in 1..MaxConnects : SourceError(es)

\* C6: with the latch unset, an error on the channel leaves exactly one reconnect timer
\* pending, a new one, set for 5000 ms; when it fires exactly one EventSource is
\* constructed and no timer is left.
C6_OneReconnectPerError ==
    [][/\ (ChannelError /\ isAuthenticatedRef) =>
             /\ Cardinality(conn'.timers) = 1
             /\ \A t \in conn'.timers :
                   /\ t.delay = RECONNECT_DELAY
                   /\ t.id = conn'.reconnectTimeoutRef
                   /\ t \notin conn.timers
       /\ ((\E t \in conn.timers : TimerFire(t)) /\ isAuthenticatedRef) =>
             /\ Len(conn'.readyState) = Len(conn.readyState) + 1
             /\ conn'.timers = {}]_vars

\* three errors (two setTimeout calls each), three reconnects after the first connection
C6_Witness ==
    /\ isAuthenticatedRef
    /\ conn.timerCount = 2 * 3
    /\ Len(conn.readyState) = 1 + 3
    /\ conn.timers = {}

\* the relay's upstream connection is gone while the provider, mounted and
\* authenticated, holds the channel of that request open, n sources constructed so far
UpstreamLost(n) ==
    /\ relay.phase = "running"
    /\ relay.ws = "closed"
    /\ relay.es = conn.eventSourceRef
    /\ conn.readyState[relay.es] = "open"
    /\ Len(conn.readyState) = n
    /\ mounted = "yes"
    /\ isAuthenticatedRef

\* C7, as stated: when the relay's upstream connection closes or fails while the user
\* is authenticated and the provider mounted, the provider eventually constructs a new
\* EventSource (unless the user logs out or the provider unmounts first).
C7_UpstreamLossReopens ==
    \A n \in 1..(MaxConnects - 1) :
        UpstreamLost(n) ~>
            (Len(conn.readyState) > n \/ ~isAuthenticatedRef \/ mounted # "yes")

\* C8: the first EventSource is constructed in a step that ends with the first
\* snapshot installed: every user the response places in a venue is in the contact
\* map at that location, is in the favourite set exactly if the platform lists it as a
\* favourite, and its venue is in the venue cache.  No friend event is handled before.
C8_ConnectAfterSnapshot ==
    [][/\ (conn.readyState = <<>> /\ conn'.readyState # <<>>) =>
             /\ ~isFirstLoad'
             /\ \A u \in Users :
                   fetch.upLoc[u] \in WorldLocations =>
                      /\ u \in DOMAIN friendsData'
                      /\ friendsData'[u].location = fetch.upLoc[u]
                      /\ u \in favoriteIds' <=> u \in Favorites
                      /\ WorldIdOf(fetch.upLoc[u]) \in DOMAIN worldCache'
       /\ DeliverFriendEvent => ~isFirstLoad]_vars

\* the channel is open after a snapshot that placed a contact, and an event has been
\* handled since
C8_Witness ==
    /\ conn.readyState # <<>>
    /\ ~isFirstLoad
    /\ favoriteIds # {}
    /\ \E u \in Users : FromEvent(u)

\* C9: cancel() sets the closed flag, clears the heartbeat interval, calls ws.close()
\* and drops the socket in one step, whatever the socket's state; from then on the
\* request has no interval and no socket connecting or open, and the channel's queue
\* never grows.
C9_CancelReleases ==
    [][/\ (relay.phase = "running" /\ relay'.phase = "cancelled") =>
             /\ relay'.isConnectionClosed
             /\ ~relay'.pingInterval
             /\ ~relay'.wsRef
             /\ relay'.ws \notin {"connecting", "open"}
             /\ Len(sseQueue') <= Len(sseQueue)
       /\ (relay.phase = "cancelled" /\ relay'.phase = "cancelled") =>
             /\ relay'.isConnectionClosed
             /\ ~relay'.pingInterval
             /\ relay'.ws \notin {"connecting", "open"}
             /\ Len(sseQueue') <= Len(sseQueue)]_vars

\* the browser left while the socket was connecting: the handshake is being aborted,
\* the interval is cleared
C9_Witness ==
    /\ relay.phase = "cancelled"
    /\ relay.ws = "aborting"
    /\ ~relay.pingInterval

\* C10, as stated: once the upstream connection has emitted error or close, and the
\* relay has forwarded it, the heartbeat interval of the request is stopped.
C10_TerminalStopsHeartbeat ==
    (relay.phase = "running" /\ relay.ws \in {"failed", "closed"}) => ~relay.pingInterval

\* the stream request of session "other" is answered with a refusal
OtherRefused(forwarded, hasCookie) ==
    StreamStatus(checkRateLimit(rateLimitStore, getClientId(forwarded, Undefined),
                                now, FALSE).limited, hasCookie) # 200

\* C11: a stream request constructs one WebSocket when it is accepted and none when it
\* is refused; the count of a request never changes afterwards, and a socket that has
\* failed or closed is never connecting or open again for the same request.
C11_OneUpstreamPerRequest ==
    [][/\ relay'.wsCount = IF relay'.phase = "idle" THEN 0 ELSE 1
       /\ other'.r.wsCount = IF other'.r.phase = "idle" THEN 0 ELSE 1
       /\ \A es \in 1..MaxConnects, hasCookie \in BOOLEAN :
             RelayGET(es, hasCookie) =>
                IF streamStatus' = 200
                THEN relay'.es = es /\ relay'.ws = "connecting"
                ELSE relay' = relay /\ sseQueue' = sseQueue
       /\ \A forwarded \in OtherForwarded, hasCookie \in BOOLEAN :
             (OtherGET(forwarded, hasCookie) /\ OtherRefused(forwarded, hasCookie)) =>
                other' = other
       /\ (relay'.es = relay.es /\ relay.ws \in {"failed", "closed"}) =>
             relay'.ws \in {"failed", "closed"}]_vars

\* the provider's third request was accepted after refusals of earlier ones; its
\* socket has closed, the request is still being served
C11_Witness ==
    /\ relay.phase = "running"
    /\ relay.es = 3
    /\ relay.ws = "closed"
    /\ relay.wsCount = 1
    /\ conn.timerCount >= 4


\* the provider's client is over the stream limit: checkRateLimit answers "limited"
ProviderLimited ==
    LET key == "stream:" \o getClientId(ProviderForwarded, Undefined)
    IN /\ key \in DOMAIN rateLimitStore
       /\ ~(now > rateLimitStore[key].resetTime)
       /\ rateLimitStore[key].count >= STREAM_MAX

\* C12 (amended): a Relay request without auth cookie is refused at once and starts
\* neither an upstream connection nor a heartbeat timer; the refusal is 401, except
\* that a client already over the stream rate limit is answered 429, because the
\* limit is checked before the cookie.
C12_NoCookieRefused ==
    [][\A es \in 1..MaxConnects :
          RelayGET(es, FALSE) =>
              /\ streamStatus' = (IF ProviderLimited THEN 429 ELSE 401)
              /\ relay' = relay
              /\ sseQueue' = sseQueue
              /\ conn'.readyState[es] = "closed"]_vars

\* C12 as stated: every Relay request without auth cookie is answered 401.
C12_NoCookieAlways401 ==
    [][\A es \in 1..MaxConnects :
          RelayGET(es, FALSE) => streamStatus' = 401 /\ relay' = relay]_vars

\* a first request without cookie was answered 401: no stream, no socket, no timer
C12_Witness ==
    /\ streamStatus = 401
    /\ relay.phase = "idle"
    /\ relay.wsCount = 0
    /\ ~relay.pingInterval
    /\ conn.eventSourceRef # 0

\* C15: the outcome of a session's Relay request does not depend on the requests of
\* another session: the provider's request is answered as it is in the run that
\* differs only in the other session having done nothing (soloStore is the
\* rate-limit store of that run).
C15_SessionsIndependent ==
    [][\A es \in 1..MaxConnects, hasCookie \in BOOLEAN :
          RelayGET(es, hasCookie) =>
              streamStatus' =
                  StreamStatus(checkRateLimit(soloStore,
                                              getClientId(ProviderForwarded, Undefined),
                                              now, FALSE).limited,
                               hasCookie)]_vars

\* the content of frame f is there and decodes: a string JSON.parse accepts, or a
\* value that is no string
ContentDecodes(f) ==
    f.envelope /\ ((f.content = "string" /\ f.decodes) \/ f.content = "object")

\* C13: while the stream is open, a frame of a recognized type whose content decodes
\* puts exactly one message at the end of the browser channel, with the frame's
\* event name and its decoded payload; a frame of any other type leaves the channel
\* and the relay as they are; the browser takes the messages from the front of the
\* channel, so they are delivered in the order the frames arrived.
C13_ForwardedOnceInOrder ==
    [][/\ \A f \in Frames :
             UpstreamFrame(f) /\ ~relay.isConnectionClosed =>
                 /\ f.type \in RelevantEvents /\ ContentDecodes(f) =>
                        /\ Len(sseQueue') = Len(sseQueue) + 1
                        /\ SubSeq(sseQueue', 1, Len(sseQueue)) = sseQueue
                        /\ LET m == sseQueue'[Len(sseQueue')]
                           IN /\ m.type = f.type
                              /\ m.parses
                              /\ m.userId = f.payload.userId
                              /\ m.location = f.payload.location
                              /\ m.hasWorld = f.payload.hasWorld
                              /\ m.hasUser = f.payload.hasUser
                 /\ f.type \notin RelevantEvents =>
                        sseQueue' = sseQueue /\ relay' = relay /\ conn' = conn
       /\ DeliverFriendEvent \/ DeliverControl => sseQueue' = Tail(sseQueue)]_vars

\* two forwarded events wait on the channel in the order their frames arrived
C13_Witness ==
    /\ relay.ws = "open"
    /\ Len(sseQueue) = 2
    /\ sseQueue[1].type = "friend-online" /\ sseQueue[1].userId = "usr_A"
    /\ sseQueue[2].type = "friend-location" /\ sseQueue[2].location = LocGroup
    /\ sseQueue[2].hasUser

\* the payload of push message m cannot be parsed or lacks a field its handler needs
LacksRequired(m) ==
    \/ ~m.parses
    \/ m.userId = Undefined
    \/ m.type \in {"friend-online", "friend-active", "friend-location", "friend-update"}
          /\ ~m.hasUser

\* C14: a frame whose envelope or content fails to decode produces no push message
\* and leaves the relay connection as it is; a push message whose payload cannot be
\* parsed or lacks required fields leaves the contact map, the location-timestamp map
\* and the activity log unchanged.
C14_MalformedDropped ==
    [][/\ \A f \in Frames :
             UpstreamFrame(f) /\ (~f.envelope \/ (f.content = "string" /\ ~f.decodes)) =>
                 sseQueue' = sseQueue /\ relay' = relay
       /\ DeliverFriendEvent /\ LacksRequired(Head(sseQueue)) =>
             /\ friendsData' = friendsData
             /\ locationTimestamps' = locationTimestamps
             /\ lsLogs' = lsLogs]_vars

\* the venue-cache entry of venue w has reached the TTL
CacheExpired(cache, w) == now - cache[w].cachedAt >= WORLD_CACHE_TTL

\* C16: no read of the venue cache returns an entry aged the TTL or more: an online
\* or location event that looks up the cache does not take the name of such an
\* entry, the snapshot backfill replaces such an entry, and the load from local
\* storage leaves such an entry out.
C16_NoExpiredCacheRead ==
    [][/\ DeliverFriendEvent =>
             LET m == Head(sseQueue)
                 w == WorldIdOf(m.location)
             IN m.type \in {"friend-online", "friend-active", "friend-location"}
                   /\ m.parses /\ m.hasUser /\ ~m.hasWorld
                   /\ StartsWithWrld(m.location)
                   /\ w \in DOMAIN worldCache
                   /\ CacheExpired(worldCache, w)
                => friendsData'[m.userId].worldName = Undefined
       /\ FetchComplete /\ fetch.result = "ok" =>
             \A u \in DOMAIN friendsData' :
                 LET c == friendsData'[u]
                 IN StartsWithWrld(c.location) /\ c.worldName # Undefined
                    => ~CacheExpired(worldCache', WorldIdOf(c.location))
       /\ Mount => \A w \in DOMAIN worldCache' : ~CacheExpired(worldCache', w)]_vars

\* the handler of push message m calls addLogEntry: online and location events of a
\* favourite, the offline event of a tracked favourite
WritesLog(m) ==
    /\ m.parses
    /\ CASE m.type \in {"friend-online", "friend-active"} ->
              m.hasUser /\ m.userId \in favoriteIds
         [] m.type = "friend-location" ->
              /\ m.hasUser
              /\ IF m.userId \in DOMAIN friendsData THEN friendsData[m.userId].isFavorite
                 ELSE m.userId \in favoriteIds
         [] m.type = "friend-offline" ->
              m.userId \in DOMAIN friendsData /\ friendsData[m.userId].isFavorite
         [] OTHER -> FALSE

\* C17: after the n-th write the persisted log holds min(n, 500) entries, newest
\* first, and they are exactly the writes n, n-1, ... down to n-499: what is dropped
\* at the cap is the oldest.
C17_LogKeepsNewest ==
    [][DeliverFriendEvent /\ WritesLog(Head(sseQueue)) =>
          LET n == LogCount(lsLogs) + 1
          IN /\ Len(lsLogs') = (IF n < LOG_LIMIT THEN n ELSE LOG_LIMIT)
             /\ \A i \in 1..Len(lsLogs') : lsLogs'[i].seq = n + 1 - i
             /\ lsLogs'[1].id = now]_vars

\* 600 writes were made: the log holds the writes 101..600
C17_Witness ==
    /\ Len(lsLogs) = LOG_LIMIT
    /\ lsLogs[1].seq = 600
    /\ lsLogs[LOG_LIMIT].seq = 101

\* C18: after every applied event and every completed snapshot refresh the
\* location-timestamp map, and its persisted copy, hold entries only for contacts
\* that are in the contact map.
C18_TimestampsPruned ==
    [][DeliverFriendEvent \/ (FetchComplete /\ fetch.result = "ok") =>
          /\ DOMAIN locationTimestamps' \subseteq DOMAIN friendsData'
          /\ DOMAIN lsTimestamps' \subseteq DOMAIN friendsData']_vars

\* C19: after a friend-location event moves a favourite to a new venue location, the
\* instance of the old location is gone when no other favourite remains there, and
\* the instance of the new location has the access tier and the group id decoded
\* from the new location string, whatever the contact record held before.
C19_MoveRebuildsInstances ==
    [][DeliverFriendEvent =>
          LET m == Head(sseQueue)
              u == m.userId
              info == parseInstanceInfo(Tokens(m.location))
          IN /\ m.type = "friend-location" /\ m.parses /\ m.hasUser
             /\ u \in DOMAIN friendsData
             /\ friendsData[u].isFavorite
             /\ m.location \in WorldLocations
             /\ friendsData[u].location # m.location
             => /\ ~FavoriteAt(friendsData', friendsData[u].location) =>
                      \A i \in 1..Len(instances') :
                          instances'[i].id # friendsData[u].location
                /\ \E i \in 1..Len(instances') :
                      /\ instances'[i].id = m.location
                      /\ instances'[i].instanceType = info.type
                      /\ instances'[i].groupId = info.groupId]_vars

\* the ids listed in a list of an instance
Listed(list) == {list[k].id : k \in 1..Len(list)}

\* C20: in every instance rebuildInstances puts out, the contacts at the instance's
\* location that are not favourites are listed in otherFriends and not in friends,
\* the favourites there are listed in friends, and userCount is the number of
\* contacts listed in friends.
C20_OthersNotCounted ==
    LET out == rebuildInstances(friendsOrder, friendsData, locationTimestamps, now) IN
    \A i \in 1..Len(out) :
        LET here == {u \in DOMAIN friendsData : friendsData[u].location = out[i].id}
        IN /\ Listed(out[i].friends) = {u \in here : friendsData[u].isFavorite}
           /\ Listed(out[i].otherFriends) = {u \in here : ~friendsData[u].isFavorite}
           /\ out[i].userCount = Len(out[i].friends)
           /\ Len(out[i].friends) = Cardinality(Listed(out[i].friends))

\* the favourite usr_A and the non-favourite usr_B are at one location: one instance,
\* usr_B in otherFriends, favourite count 1
C20_Witness ==
    /\ Len(instances) = 1
    /\ Listed(instances[1].friends) = {"usr_A"}
    /\ Listed(instances[1].otherFriends) = {"usr_B"}
    /\ instances[1].userCount = 1

\* C28: joinedAt changes only when the observed location string changes: a step that
\* leaves a contact's recorded location as it was (a repeated online or location
\* event, a snapshot refresh) leaves its joinedAt as it was.
C28_SameLocationKeepsJoinedAt ==
    [][\A u \in Users :
          (/\ u \in DOMAIN locationTimestamps
           /\ u \in DOMAIN locationTimestamps'
           /\ locationTimestamps'[u].location = locationTimestamps[u].location)
          => locationTimestamps'[u].joinedAt = locationTimestamps[u].joinedAt]_vars

\* C25: an online or offline push event appends an activity-log entry if and only if
\* the contact concerned is a favorited contact.
C25_PresenceLoggedIffFavorite ==
    [][(/\ DeliverFriendEvent
        /\ Head(sseQueue).type \in {"friend-online", "friend-offline"}
        /\ Head(sseQueue).parses
        /\ Head(sseQueue).hasUser \/ Head(sseQueue).type = "friend-offline")
       => (LogCount(lsLogs') = LogCount(lsLogs) + 1
              <=> Head(sseQueue).userId \in Favorites)]_vars

UpdateDelivered ==
    /\ DeliverFriendEvent
    /\ Head(sseQueue).type = "friend-update"
    /\ Head(sseQueue).parses
    /\ Head(sseQueue).hasUser

\* C26: a friend-update for a contact that is not in the contact map changes nothing;
\* for a tracked contact it changes only the display name, the status, the status
\* message and the icon: location, favourite flag, favourite group and the timestamp
\* entry stay as they were, and so does every other contact.
C26_UpdateTouchesProfileOnly ==
    [][UpdateDelivered =>
          LET u == Head(sseQueue).userId IN
          /\ locationTimestamps' = locationTimestamps
          /\ friendsOrder' = friendsOrder
          /\ favoriteIds' = favoriteIds
          /\ favoriteGroups' = favoriteGroups
          /\ DOMAIN friendsData' = DOMAIN friendsData
          /\ \A v \in DOMAIN friendsData \ {u} : friendsData'[v] = friendsData[v]
          /\ IF u \in DOMAIN friendsData
             THEN [friendsData'[u] EXCEPT !.name = friendsData[u].name,
                                          !.status = friendsData[u].status,
                                          !.statusMsg = friendsData[u].statusMsg,
                                          !.icon = friendsData[u].icon]
                      = friendsData[u]
             ELSE /\ lsLogs' = lsLogs
                  /\ instances' = instances]_vars

\* a tracked favourite has taken the name, the icon and the status of friend-update
\* events and is where it was
C26_Witness ==
    /\ "usr_A" \in DOMAIN friendsData
    /\ friendsData["usr_A"].name = "renamed"
    /\ friendsData["usr_A"].icon = "icon2"
    /\ friendsData["usr_A"].status = "busy"
    /\ friendsData["usr_A"].location = LocFriends
    /\ friendsData["usr_A"].isFavorite

\* the types of the entries a step has put in front of the log
NewLogTypes ==
    {lsLogs'[i].type : i \in 1..(LogCount(lsLogs') - LogCount(lsLogs))}

\* C27: on a friend-update a Status entry is written only if the contact is favorited
\* and the new status differs from the stored one; a StatusMsg entry, separately, only
\* if the contact is favorited and the new message differs from the stored one; an
\* event that repeats the stored values writes nothing.
C27_StatusLoggedOnChange ==
    [][UpdateDelivered =>
          LET u == Head(sseQueue).userId
              user == Head(sseQueue).user
              tracked == u \in DOMAIN friendsData
          IN /\ LogCount(lsLogs') >= LogCount(lsLogs)
             /\ NewLogTypes \subseteq {"Status", "StatusMsg"}
             /\ "Status" \in NewLogTypes =>
                   /\ tracked /\ friendsData[u].isFavorite
                   /\ user.status # friendsData[u].status
             /\ "StatusMsg" \in NewLogTypes =>
                   /\ tracked /\ friendsData[u].isFavorite
                   /\ user.statusDescription # friendsData[u].statusMsg
             /\ (tracked /\ user.status = friendsData[u].status
                         /\ user.statusDescription = friendsData[u].statusMsg)
                   => lsLogs' = lsLogs]_vars

\* the log holds a Status entry and a StatusMsg entry of a favourite
C27_Witness ==
    /\ \E i \in 1..Len(lsLogs) : lsLogs[i].type = "Status"
    /\ \E i \in 1..Len(lsLogs) : lsLogs[i].type = "StatusMsg"

\* the earliest joinedAt among the favourites of an instance of the list
EarliestJoin(inst) ==
    CHOOSE t \in {inst.friends[k].joinedAt : k \in 1..Len(inst.friends)} :
        \A k \in 1..Len(inst.friends) : t <= inst.friends[k].joinedAt

\* instance a may stand before instance b among venues: earlier earliest joinedAt,
\* then lower least favourite group, then more favourites
VenueOrder(a, b) ==
    \/ EarliestJoin(a) < EarliestJoin(b)
    \/ /\ EarliestJoin(a) = EarliestJoin(b)
       /\ \/ a.minFavoriteGroup < b.minFavoriteGroup
          \/ /\ a.minFavoriteGroup = b.minFavoriteGroup
             /\ a.userCount >= b.userCount

Rebuilt == call.fn = "rebuildInstances" /\ call.done # {}

\* C29 as stated: in the rebuilt list every concrete venue stands before the
\* Traveling and Private pseudo-groups, and the concrete venues are in ascending
\* order of earliest joinedAt, then least favourite group, then descending count.
C29_VenuesBeforePseudoGroups ==
    Rebuilt =>
       \A i, j \in 1..Len(instances) :
          i < j =>
             LET a == instances[i]
                 b == instances[j]
             IN /\ a.id \in {"private", "traveling"} => b.id \in {"private", "traveling"}
                /\ (a.id \notin {"private", "traveling"}
                      /\ b.id \notin {"private", "traveling"}) => VenueOrder(a, b)

\* 0 for a venue shown with a name, 1 for Traveling, 2 for what is shown as private:
\* the Private pseudo-group and a venue whose displayed name is "Private World"
SortRank(inst) ==
    IF inst.id = "private" \/ inst.worldName = "Private World" THEN 2
    ELSE IF inst.id = "traveling" THEN 1
    ELSE 0

\* C29, amended: the instances not shown as private come first, ordered by earliest
\* joinedAt, then least favourite group, then descending favourite count; Traveling
\* follows; what is shown as private comes last, the Private pseudo-group together
\* with every venue displayed as "Private World" (an invite venue whose name is not
\* known), ordered by least favourite group, then descending favourite count.
C29_ShownVenuesFirst ==
    Rebuilt =>
       \A i, j \in 1..Len(instances) :
          i < j =>
             LET a == instances[i]
                 b == instances[j]
             IN /\ SortRank(a) <= SortRank(b)
                /\ (SortRank(a) = 0 /\ SortRank(b) = 0) => VenueOrder(a, b)
                /\ (SortRank(a) = 2 /\ SortRank(b) = 2) =>
                      \/ a.minFavoriteGroup < b.minFavoriteGroup
                      \/ /\ a.minFavoriteGroup = b.minFavoriteGroup
                         /\ a.userCount >= b.userCount

\* two named venues with the same earliest joinedAt and different favourite groups,
\* followed by Traveling
C29_Witness ==
    /\ Rebuilt
    /\ Len(instances) = 3
    /\ SortRank(instances[1]) = 0
    /\ SortRank(instances[2]) = 0
    /\ EarliestJoin(instances[1]) = EarliestJoin(instances[2])
    /\ instances[1].minFavoriteGroup < instances[2].minFavoriteGroup
    /\ instances[3].id = "traveling"

\* the location given to the parsers carries marker t; carries the access tag v
Marks(t) == \E i \in 1..Len(call.location) : call.location[i] = t

AccessTag(v) ==
    \E i \in 1..Len(call.location) - 2 :
        /\ call.location[i] = "~groupAccessType("
        /\ call.location[i + 1] = v
        /\ call.location[i + 2] = ")"

\* the location has the form <venue id>:<instance part>, with one colon
OneColon ==
    /\ Len(call.location) >= 3
    /\ call.location[2] = ":"
    /\ \A i \in 1..Len(call.location) : call.location[i] = ":" => i = 2

\* the tier t agrees with the priority of the markers in the location
TierByPriority(t) ==
    /\ Marks("~group(") =>
          /\ t \in {"Group Public", "Group", "Group+"}
          /\ (AccessTag("public") /\ ~AccessTag("plus") /\ ~AccessTag("members"))
                => t = "Group Public"
          /\ (AccessTag("members") /\ ~AccessTag("public") /\ ~AccessTag("plus"))
                => t = "Group"
          /\ (AccessTag("plus") /\ ~AccessTag("public") /\ ~AccessTag("members"))
                => t = "Group+"
    /\ (~Marks("~group(") /\ Marks("~private(")) =>
          t = IF Marks("~canRequestInvite") THEN "Invite+" ELSE "Invite"
    /\ (~Marks("~group(") /\ ~Marks("~private(") /\ Marks("~friends(")) => t = "Friends"
    /\ (~Marks("~group(") /\ ~Marks("~private(") /\ ~Marks("~friends(")
          /\ Marks("~hidden(")) => t = "Friends+"
    /\ (~Marks("~group(") /\ ~Marks("~private(") /\ ~Marks("~friends(")
          /\ ~Marks("~hidden(")) => t = "Public"

Tiers ==
    {"Public", "Friends", "Friends+", "Invite", "Invite+", "Group", "Group Public",
     "Group+", "Private", "Traveling"}

\* C22: location decoding is total: for every input string, empty, truncated and
\* malformed ones included, each parser returns a record whose tier is in the closed
\* set, and a string without any suffix that can be parsed gives Public, region US,
\* no owner id and no group id.
C22_DecodingTotal ==
    LET plain == /\ call.location \notin {<<>>, <<"offline">>, <<"private">>,
                                          <<"traveling">>}
                 /\ \A i \in 1..Len(call.location) :
                       call.location[i] \in {"wrld_1", ":", "inst1", ")"}
    IN /\ "parseInstanceInfo" \in call.done =>
             /\ ~call.info.isNull
             /\ call.info.type \in Tiers
             /\ plain => /\ call.info.type = "Public"
                         /\ call.info.region = "US"
                         /\ call.info.creatorId = Undefined
                         /\ call.info.groupId = Undefined
       /\ "parseLocation" \in call.done =>
             /\ call.parsed.instanceType \in Tiers
             /\ plain => /\ call.parsed.instanceType = "Public"
                         /\ call.parsed.ownerId = Undefined
                         /\ call.parsed.groupId = Undefined

\* the friends the read obtained: the ids on the pages the loop reached and accepted
RECURSIVE PagesObtained(_, _)
PagesObtained(pages, k) ==
    IF k > Len(pages) \/ pages[k].kind \notin {"full", "short"} THEN {}
    ELSE {pages[k].ids[i] : i \in 1..Len(pages[k].ids)}
         \cup (IF pages[k].kind = "full" THEN PagesObtained(pages, k + 1) ELSE {})

\* the request of the loop that failed, 0 if none did
RECURSIVE FailedRequest(_, _)
FailedRequest(pages, k) ==
    IF k > Len(pages) THEN 0
    ELSE CASE pages[k].kind \in {"notok", "throws"} -> k
           [] pages[k].kind = "full" -> FailedRequest(pages, k + 1)
           [] OTHER -> 0

SnapshotServed == call.fn = "GET" /\ call.done = {"GET"}

IdsOf(seq) == {seq[i] : i \in 1..Len(seq)}

\* C23: the snapshot endpoint answers with an error for a failed page of the friends
\* read only if that page is the first one (503 for a non-OK answer, 500 for an
\* exception); a failure behind a successful page gives a 200 response whose friends
\* are taken from the pages obtained, every favourite on them included
C23_FatalOnlyWithoutPages ==
    SnapshotServed =>
        LET failed == FailedRequest(call.pages, 1)
            got == PagesObtained(call.pages, 1)
        IN /\ call.resp.status # 200 <=> failed = 1
           /\ failed = 1 =>
                  call.resp.status = (IF call.pages[1].kind = "notok" THEN 503 ELSE 500)
           /\ failed > 1 =>
                  /\ call.resp.status = 200
                  /\ IdsOf(call.resp.friends) \subseteq got
                  /\ got \cap call.favoriteIds \subseteq IdsOf(call.resp.friends)
                  /\ got \ {"usr_B"} \subseteq IdsOf(call.resp.friends)

C23_Witness ==
    /\ SnapshotServed
    /\ FailedRequest(call.pages, 1) = 2
    /\ call.resp.status = 200
    /\ "usr_A" \in IdsOf(call.resp.friends)

\* C24: in a successful snapshot response a favourite that is in the friends read is
\* in friends and not in offlineFriends; a favourite that is not is absent from
\* friends and is in offlineFriends exactly if its lookup succeeded; no id is in
\* both lists and nobody of the friends read is in offlineFriends
C24_FavouriteInOneList ==
    (SnapshotServed /\ call.resp.status = 200) =>
        LET online == PagesObtained(call.pages, 1)
            inFriends == IdsOf(call.resp.friends)
        IN /\ \A u \in call.favoriteIds :
                IF u \in online
                THEN u \in inFriends /\ u \notin call.resp.offlineFriends
                ELSE /\ u \notin inFriends
                     /\ u \in call.resp.offlineFriends <=> u \in call.found
           /\ inFriends \cap call.resp.offlineFriends = {}
           /\ online \cap call.resp.offlineFriends = {}
           /\ call.resp.offlineFriends \subseteq call.favoriteIds

C24_Witness ==
    /\ SnapshotServed
    /\ call.favoriteIds = {"usr_A", "usr_B"}
    /\ IdsOf(call.resp.friends) = {"usr_A"}
    /\ call.resp.offlineFriends = {"usr_B"}

\* C31: the instance of "private" has tier Private and the instance of "traveling"
\* has tier Traveling, both without owner id and group id, whether the contact came
\* with the snapshot or with an event
C31_SentinelInstances ==
    \A i \in 1..Len(instances) :
        /\ instances[i].id = "private" =>
              /\ instances[i].instanceType = "Private"
              /\ instances[i].ownerId = Undefined
              /\ instances[i].groupId = Undefined
        /\ instances[i].id = "traveling" =>
              /\ instances[i].instanceType = "Traveling"
              /\ instances[i].ownerId = Undefined
              /\ instances[i].groupId = Undefined

\* the offsets of a paginated read are 0, 100, 200, ...; the read goes on behind a
\* request exactly if its page is full; it ends one request behind the full pages
PagedAsSpecified(requests, pages) ==
    /\ requests # <<>>
    /\ \A k \in 1..Len(requests) :
          /\ requests[k] = 100 * (k - 1)
          /\ k < Len(requests) <=> (k <= Len(pages) /\ pages[k].kind = "full")
    /\ Len(requests) <= Len(pages) + 1

\* C32: the friends read and the favourites read of the snapshot endpoint ask for the
\* offsets 0, 100, 200, ..., continue exactly while the page returned is full, stop at
\* the first short or empty page or error, and end when the list is finite
C32_PagedReads ==
    /\ SnapshotServed => PagedAsSpecified(call.resp.requests, call.pages)
    /\ (call.fn = "favorites" /\ call.done # {}) =>
           PagedAsSpecified(call.favorites.requests, call.pages)

C32_Witness ==
    /\ call.fn = "favorites"
    /\ call.done # {}
    /\ call.favorites.requests = <<0, 100, 200>>
    /\ call.favorites.favoriteIds = {"usr_A", "usr_B"}

\* C33: for every rate-limit key at most maxRequests requests are admitted in one
\* window, a window beginning with the request that finds no unexpired entry; a
\* rejected request leaves the entry of its key, and so the count, as it was
C33_AtMostMaxPerWindow ==
    [][/\ \A type \in {"login", "stream"}, clientId \in OtherForwarded :
             LET key == type \o ":" \o clientId
             IN key \in DOMAIN call'.admitted =>
                    call'.admitted[key] <= RATE_LIMIT_CONFIG[type].maxRequests
       /\ (call'.fn = "checkRateLimit" /\ call'.limited) =>
             /\ call'.key \in DOMAIN rateLimitStore
             /\ call'.key \in DOMAIN rateLimitStore'
             /\ rateLimitStore'[call'.key] = rateLimitStore[call'.key]
             /\ call'.admitted = call.admitted]_vars

\* a client is rejected in its second stream window, five requests admitted in it
C33_Witness ==
    /\ call.fn = "checkRateLimit"
    /\ call.limited
    /\ call.key = "stream:ip_1"
    /\ call.admitted["stream:ip_1"] = STREAM_MAX
    /\ rateLimitStore["stream:ip_1"].resetTime > ClockStep + STREAM_WINDOW
    /\ "stream:ip_2" \in DOMAIN rateLimitStore
    /\ rateLimitStore["stream:ip_2"].count < STREAM_MAX

\* C34: a favourite the last successful snapshot returned in offlineFriends and who
\* has since come online with an event is in the contact map as a favourite, as the
\* favourite set holding every favourite of the snapshot would make it
C34_LateFavoriteFlagged ==
    \A i \in 1..Len(offlineFriends) :
        offlineFriends[i] \in DOMAIN friendsData =>
            friendsData[offlineFriends[i]].isFavorite

\* C35: the logged-out latch (isAuthenticatedRef false) is set only when a snapshot
\* fetch is answered with an authentication failure, or at teardown; a fetch that
\* throws leaves it unset.  "denied" stands for every non-OK status, 401 among them
C35_LatchOnlyOnAuthFailure ==
    [][(isAuthenticatedRef /\ ~isAuthenticatedRef') =>
           \/ FetchComplete /\ fetch.result = "denied"
           \/ Unmount]_vars

\* C36: once the provider is torn down no EventSource is connecting or open and no
\* reconnect timer is pending, also when a snapshot fetch that was in flight at the
\* teardown resolves afterwards
C36_NothingAfterTeardown ==
    mounted = "gone" =>
        /\ \A es \in 1..Len(conn.readyState) : conn.readyState[es] = "closed"
        /\ conn.timers = {}

\* C37: the provider never has more than one EventSource connecting or open, nor more
\* than one reconnect timer pending; the source a new one replaces is closed and the
\* timer a new one replaces is cleared
C37_OneSourceOneTimer ==
    /\ Cardinality({es \in 1..Len(conn.readyState) : conn.readyState[es] # "closed"}) <= 1
    /\ Cardinality(conn.timers) <= 1
    /\ \A es \in 1..Len(conn.readyState) :
          conn.readyState[es] # "closed" => es = conn.eventSourceRef
    /\ \A t \in conn.timers : t.id = conn.reconnectTimeoutRef

\* the second source has failed as the first did: both are closed and the timer set
\* for the second error is the only one pending
C37_Witness ==
    /\ Len(conn.readyState) >= 2
    /\ \A es \in 1..Len(conn.readyState) : conn.readyState[es] = "closed"
    /\ Cardinality(conn.timers) = 1
    /\ conn.timerCount >= 2
    /\ mounted = "yes"

\* C38: no contact is listed in an Instance (friends or otherFriends) and in the
\* offline-favourites list at once
C38_PresentNotOffline ==
    \A i \in 1..Len(instances), j \in 1..Len(offlineFriends) :
        /\ \A k \in 1..Len(instances[i].friends) :
              instances[i].friends[k].id # offlineFriends[j]
        /\ \A k \in 1..Len(instances[i].otherFriends) :
              instances[i].otherFriends[k].id # offlineFriends[j]

\* C39: a client whose stream request is rejected by the rate limit and who asks again
\* every RECONNECT_DELAY is eventually admitted: the rejections leave the window where
\* it was, so the request that follows its resetTime is accepted
C39_RejectedEventuallyAdmitted ==
    (/\ ("stream:" \o ProviderForwarded) \in call.rejected
     /\ now <= ClockStep + MaxHalfWindows * (STREAM_WINDOW \div 2))
        ~> (("stream:" \o ProviderForwarded) \notin call.rejected)

\* a rejected client's retry has just been admitted: it found the window over and
\* began a new one
C39_Witness ==
    /\ call.fn = "checkRateLimit"
    /\ call.retry
    /\ ~call.limited
    /\ call.key = "stream:ip_1"
    /\ call.admitted["stream:ip_1"] = 1
    /\ rateLimitStore["stream:ip_1"].resetTime = now + STREAM_WINDOW
    /\ now > ClockStep + STREAM_WINDOW

=========================================================================
